---- MODULE Spec2Model ----
(***************************************************************************)
(* State-machine model of scroll-tech/rpc-auth-proxy: the JWT signer with  *)
(* key rotation (auth/jwt.rs), the authentication middleware               *)
(* (auth/auth_middleware.rs), the SIWE handshake (auth/siwe.rs) and the    *)
(* authorization-aware RPC proxy (proxy/server.rs).                        *)
(*                                                                         *)
(* Library behaviour the source relies on and that is taken as given:      *)
(*  - jsonwebtoken: HS256 tokens verify only under the secret they were    *)
(*    signed with; Validation::default() requires exp and rejects a token  *)
(*    when exp < now - 60.                                                 *)
(*  - moka: Cache::insert / Cache::remove are atomic per key; an entry is  *)
(*    no longer present once time_to_live has elapsed since its insert.    *)
(*  - rand: a 64-character alphanumeric nonce is never drawn twice.        *)
(***************************************************************************)
EXTENDS Integers, Sequences, FiniteSets, TLC

VARIABLES
    now,            \* wall clock, unix seconds (chrono::Utc::now / jsonwebtoken's clock)
    signer,         \* the JwtSigner in use: [keys, default_kid]
    built,          \* outcome of the last JwtSigner::from_config
    config,         \* the configuration the process was started with: [keys, default_kid]
    tok,            \* the token last returned by create_token, with its arguments and the issuing signer's default key
    decoded,        \* the last decode_token call: [token, res], or NoDecode
    api_keys,       \* AuthenticationMiddleware.api_keys
    jwt_expiry_secs,\* SiweAuthRpcImpl.jwt_expiry_secs
    cache,          \* SiweAuthRpcImpl.cache: nonce -> time of insert, or NotCached
    nonces,         \* history: nonces returned by get_nonce, with their insert time
    passed,         \* history: per nonce, the times at which a sign_in passed the nonce step
    req,            \* the sign_in requests in flight: position and locals of each
    last,           \* the sign_in that has just returned or been dropped, with its response
    http,           \* the last HTTP request through the middleware: [hdr, at, ext, outcome]
    px,             \* the proxy request in flight: method, access, arguments, position
    vs,             \* one sign_in followed through verify_signature: the upstream replies it got, the checks it ran
    minted,         \* history: per nonce, the number of tokens sign_in has returned for it
    issued          \* history: the tokens sign_in has returned, each with the message it was returned for

vars == <<now, signer, built, config, tok, decoded, api_keys, jwt_expiry_secs, cache,
          nonces, passed, req, last, http, px, vs, minted, issued>>

-----------------------------------------------------------------------------
(* Bounds of the model *)

MaxExp == 1           \* exp claims passed to create_token range over 0..MaxExp
MaxKeys == 2          \* length of the jwt_signer_keys list given to from_config
MaxReqs == 2          \* sign_in calls in flight at once

(* Program constants *)

LEEWAY == 60          \* jsonwebtoken Validation::default().leeway, seconds
NONCE_TTL == 300      \* Cache::builder().time_to_live(Duration::from_secs(300))
EIP7702_CODE_SIZE == 23
INVALID_PARAMS_CODE == -32602
INTERNAL_ERROR_CODE == -32603
INVALID_REQUEST_CODE == -32600

-----------------------------------------------------------------------------
(* Data *)

ZERO_ADDRESS == "0x0"
Address == {"0xA", "0xB"}

Kids == {"K1", "K2"}
NoKid == "nokid"                    \* header.kid = None
Secrets == {"s1", "s2"}
ForeignSecret == "sx"               \* a secret that is in no key set

KeyConfig == [kid : Kids, secret : Secrets]      \* JwtSignerKeyConfig
KeyConfigLists == UNION {[1..n -> KeyConfig] : n \in 0..MaxKeys}

NoSigner == [keys |-> <<>>, default_kid |-> NoKid]
NoToken == [fmt |-> "none", kid |-> NoKid, sec |-> "", address |-> ZERO_ADDRESS, exp |-> 0]
NoDecode == [token |-> NoToken, res |-> [ok |-> FALSE, err |-> "none", kid |-> NoKid,
                                         address |-> ZERO_ADDRESS, exp |-> 0]]

(* A bearer string that is no JWT at all (decode_header fails on it). *)
Opaque(name) == [fmt |-> "opaque", kid |-> name, sec |-> "", address |-> ZERO_ADDRESS, exp |-> 0]

(* A compact HS256 JWT: header kid, claims {address, exp}, and the secret   *)
(* its HMAC was computed with.                                              *)
Jwt(kid, sec, address, exp) ==
    [fmt |-> "jwt", kid |-> kid, sec |-> sec, address |-> address, exp |-> exp]

-----------------------------------------------------------------------------
(* auth/jwt.rs *)

Ok(v) == [ok |-> TRUE, err |-> "", kid |-> v.kid, address |-> v.address, exp |-> v.exp]
Err(msg, kid) == [ok |-> FALSE, err |-> msg, kid |-> kid, address |-> ZERO_ADDRESS, exp |-> 0]

(* keys.iter().map(|k| (k.kid.clone(), k.into())).collect::<HashMap>():      *)
(* a kid listed twice keeps its last entry.                                 *)
KeyMap(keys) ==
    LET ks == {keys[i].kid : i \in 1..Len(keys)}
        lastIdx(k) == CHOOSE i \in 1..Len(keys) :
                      /\ keys[i].kid = k
                      /\ \A j \in 1..Len(keys) : keys[j].kid = k => j <= i
    IN [k \in ks |-> keys[lastIdx(k)].secret]

(* from_config without the contains_key test *)
from_config_unchecked(keys, default_kid) ==
    [ok |-> TRUE, err |-> "", signer |-> [keys |-> KeyMap(keys), default_kid |-> default_kid]]

from_config(keys, default_kid) ==
    LET map == KeyMap(keys)
    IN IF default_kid \notin DOMAIN map
       THEN [ok |-> FALSE, err |-> "default_kid not found in jwt_signer_keys",
             signer |-> NoSigner]
       ELSE [ok |-> TRUE, err |-> "",
             signer |-> [keys |-> map, default_kid |-> default_kid]]

(* create_token signing with whichever key comes first instead of the default *)
create_token_any_key(s, addr, exp) ==
    LET k == CHOOSE k \in DOMAIN s.keys : \A j \in DOMAIN s.keys : k = "K2" \/ j # "K2"
    IN [ok |-> TRUE, err |-> "", token |-> Jwt(k, s.keys[k], addr, exp)]

(* create_token leaving header.kid at Header::default(), which has none *)
create_token_no_kid(s, addr, exp) ==
    IF s.default_kid \notin DOMAIN s.keys
    THEN [ok |-> FALSE, err |-> "Current signing key not found", token |-> NoToken]
    ELSE [ok |-> TRUE, err |-> "", token |-> Jwt(NoKid, s.keys[s.default_kid], addr, exp)]

create_token(s, addr, exp) ==
    IF s.default_kid \notin DOMAIN s.keys
    THEN [ok |-> FALSE, err |-> "Current signing key not found", token |-> NoToken]
    ELSE [ok |-> TRUE, err |-> "",
          token |-> Jwt(s.default_kid, s.keys[s.default_kid], addr, exp)]

(* jsonwebtoken::decode with validate_exp switched off *)
jwt_decode_no_exp(token, secret, t) ==
    IF token.sec # secret THEN Err("InvalidSignature", token.kid) ELSE Ok(token)

(* jsonwebtoken::decode under Validation::default(): HS256 signature, then  *)
(* exp with the default leeway.                                             *)
jwt_decode(token, secret, t) ==
    IF token.sec # secret THEN Err("InvalidSignature", token.kid)
    ELSE IF token.exp < t - LEEWAY THEN Err("ExpiredSignature", token.kid)
    ELSE Ok(token)

(* decode_token falling back to the default key for a kid it does not hold *)
decode_token_fallback(s, token, t) ==
    IF token.fmt # "jwt" THEN Err("InvalidToken", NoKid)
    ELSE IF token.kid = NoKid THEN Err("No kid in JWT header", NoKid)
    ELSE IF token.kid \notin DOMAIN s.keys
         THEN jwt_decode(token, s.keys[s.default_kid], t)
    ELSE jwt_decode(token, s.keys[token.kid], t)

decode_token(s, token, t) ==
    IF token.fmt # "jwt" THEN Err("InvalidToken", NoKid)
    ELSE IF token.kid = NoKid THEN Err("No kid in JWT header", NoKid)
    ELSE IF token.kid \notin DOMAIN s.keys
         THEN Err("JWT signing key kid not found", token.kid)
    ELSE jwt_decode(token, s.keys[token.kid], t)

-----------------------------------------------------------------------------
(* The parts of the state a specification does not use stay at these values *)

IdleHttp == [hdr |-> [kind |-> "none", token |-> NoToken], at |-> 0,
             ext |-> [level |-> "absent", address |-> ZERO_ADDRESS], outcome |-> "none"]
IdlePx ==
    [pc |-> "idle", method |-> "", ext |-> [level |-> "absent", address |-> ZERO_ADDRESS],
     address |-> "", hash |-> "",
     bytes |-> [fault |-> "none", from |-> ZERO_ADDRESS, to |-> ""], calls |-> <<>>,
     ws |-> [kind |-> "none", id |-> "", from |-> ZERO_ADDRESS, to |-> ""],
     reply |-> [kind |-> "none",
                value |-> [kind |-> "none", id |-> "", from |-> ZERO_ADDRESS, to |-> ""],
                error |-> [ok |-> FALSE, code |-> 0, message |-> "none", data |-> "",
                           value |-> [kind |-> "none", id |-> "", from |-> ZERO_ADDRESS, to |-> ""]]],
     res |-> [ok |-> FALSE, code |-> 0, message |-> "none", data |-> "",
              value |-> [kind |-> "none", id |-> "", from |-> ZERO_ADDRESS, to |-> ""]]]

(* no sign_in is being followed: no code and no return data seen yet *)
IdleVerify ==
    [pc |-> "idle", msg |-> [parses |-> FALSE, address |-> ZERO_ADDRESS, nonce |-> ""],
     sig |-> [eoa |-> FALSE], consumed |-> FALSE,
     code |-> [ok |-> FALSE, code |-> [len |-> -1, ef0100 |-> FALSE]], atype |-> "",
     ret |-> [ok |-> FALSE, len |-> -1, magic |-> FALSE, tail |-> "none"],
     ran |-> <<>>, verdict |-> "",
     res |-> [ok |-> FALSE, code |-> 0, detail |-> "none", nonce |-> "", token |-> NoToken]]

-----------------------------------------------------------------------------
(* SpecJwt: a JwtSigner built, replaced (key rotation) and used over time,  *)
(* as in test_jwt_signer_key_rotation.                                      *)

(* jwt.rs test: keys key-2025-07 / key-2025-06, default key-2025-07 *)
TestKeys == <<[kid |-> "K1", secret |-> "s1"], [kid |-> "K2", secret |-> "s2"]>>

(* What a client may present for verification: the issued token, or the    *)
(* same claims under another header kid or another HMAC secret, or a       *)
(* string that is no JWT.                                                   *)
DecodeCandidates(base) ==
    {Jwt(k, s, base.address, base.exp) : k \in Kids, s \in Secrets \cup {ForeignSecret}}
    \cup {Jwt(NoKid, base.sec, base.address, base.exp), Opaque("garbage")}

(* The signing key of a signer: its default kid and that kid's secret. *)
NoIssuer == [default_kid |-> NoKid, secret |-> ""]
NoIssued == [token |-> NoToken, addr |-> ZERO_ADDRESS, exp |-> 0, by |-> NoIssuer]
(* the configuration the process starts from: jwt_signer_keys and default_kid *)
TestConfig == [keys |-> TestKeys, default_kid |-> "K1"]
Issuer(s) == [default_kid |-> s.default_kid, secret |-> s.keys[s.default_kid]]

JwtIdle ==
    /\ api_keys = {}
    /\ jwt_expiry_secs = 0
    /\ cache = <<>>
    /\ nonces = {}
    /\ passed = <<>>
    /\ req = <<>>
    /\ last = <<>>
    /\ http = IdleHttp
    /\ px = IdlePx
    /\ vs = IdleVerify
    /\ minted = <<>>
    /\ issued = {}

JwtFrame == UNCHANGED <<config, api_keys, jwt_expiry_secs, cache, nonces, passed, req, last, http,
                        px, vs, minted, issued>>

InitJwt ==
    /\ now = 0
    /\ built = from_config(TestKeys, "K1")
    /\ signer = built.signer
    /\ config = TestConfig
    /\ tok = NoIssued
    /\ decoded = NoDecode
    /\ JwtIdle

(* let signer = JwtSigner::from_config(&keys, kid): on Ok the new signer    *)
(* replaces the old one wholesale; on Err no signer is produced.            *)
JwtFromConfig(keys, default_kid) ==
    /\ built' = from_config(keys, default_kid)
    /\ signer' = IF built'.ok THEN built'.signer ELSE signer
    /\ decoded' = NoDecode
    /\ UNCHANGED <<now, tok>>
    /\ JwtFrame

JwtCreateToken(addr, exp) ==
    LET r == create_token(signer, addr, exp)
    IN /\ r.ok
       /\ tok' = [token |-> r.token, addr |-> addr, exp |-> exp, by |-> Issuer(signer)]
       /\ decoded' = NoDecode
       /\ UNCHANGED <<now, signer, built>>
       /\ JwtFrame

JwtDecodeToken(t) ==
    /\ decoded' = [token |-> t, res |-> decode_token(signer, t, now)]
    /\ UNCHANGED <<now, signer, built, tok>>
    /\ JwtFrame

(* The clock moves forward to a later instant. The instants observed are   *)
(* those around every exp the model issues: exp, exp + 1, and the same     *)
(* shifted by the leeway.                                                   *)
ClockInstants == {e + d : e \in 0..MaxExp, d \in {0, 1, LEEWAY, LEEWAY + 1}}

JwtTick(t) ==
    /\ t > now
    /\ now' = t
    /\ decoded' = NoDecode
    /\ UNCHANGED <<signer, built, tok>>
    /\ JwtFrame

NextJwt ==
    \/ \E keys \in KeyConfigLists, d \in Kids : JwtFromConfig(keys, d)
    \/ \E a \in Address, e \in 0..MaxExp : JwtCreateToken(a, e)
    \/ \E t \in DecodeCandidates(IF tok.token = NoToken
                                 THEN Jwt("K1", "s1", "0xA", 0) ELSE tok.token) :
          JwtDecodeToken(t)
    \/ \E t \in ClockInstants : JwtTick(t)

SpecJwt == InitJwt /\ [][NextJwt]_vars

-----------------------------------------------------------------------------
(* Claims about the JWT signer, under SpecJwt *)

(* The signer in use holds the key the token under test was issued with.   *)
HoldsIssuerKey ==
    /\ tok.token # NoToken
    /\ tok.by.default_kid \in DOMAIN signer.keys
    /\ signer.keys[tok.by.default_kid] = tok.by.secret

(* C8: decode_token accepts a JWT iff its header carries a kid, the kid is  *)
(* in the current key set, the signature verifies under that kid's secret,  *)
(* and now is not past exp by more than the 60 s leeway; a token with no    *)
(* kid, an unknown kid, or a known kid but another secret is rejected.      *)
C8_AcceptIff ==
    decoded # NoDecode =>
        LET t == decoded.token
        IN /\ decoded.res.ok <=>
                /\ t.fmt = "jwt"
                /\ t.kid # NoKid
                /\ t.kid \in DOMAIN signer.keys
                /\ t.sec = signer.keys[t.kid]
                /\ now <= t.exp + LEEWAY
           /\ decoded.res.ok => decoded.res.address = t.address /\ decoded.res.exp = t.exp

C8_Witness ==
    /\ decoded.res.ok
    /\ now = decoded.token.exp + LEEWAY
    /\ decoded.token.kid # signer.default_kid

(* C9 as amended: a token issued by JwtSigner(K, d) verifies under every   *)
(* signer whose key set holds d with the same secret at any time up to      *)
(* exp + 60 s, and fails at any later time.                                 *)
C9_VerifiesUntilExpPlusLeeway ==
    (decoded # NoDecode /\ decoded.token = tok.token /\ HoldsIssuerKey) =>
        (decoded.res.ok <=> now <= tok.token.exp + LEEWAY)

C9_Witness ==
    /\ decoded # NoDecode /\ decoded.token = tok.token /\ HoldsIssuerKey
    /\ Issuer(signer) # tok.by
    /\ now > tok.token.exp + LEEWAY
    /\ decoded.res.err = "ExpiredSignature"

(* C9 as stated: ... succeeds at any time before exp and fails at any time *)
(* after exp.                                                               *)
C9_FailsAfterExp ==
    (decoded # NoDecode /\ decoded.token = tok.token /\ HoldsIssuerKey) =>
        /\ now < tok.token.exp => decoded.res.ok
        /\ now > tok.token.exp => ~decoded.res.ok

(* C10: create_token signs with the default kid and names it in the        *)
(* header; the token still verifies under a signer whose default is another *)
(* kid but which holds the issuing key; under a signer that no longer holds *)
(* that kid it fails with "JWT signing key kid <kid> not found", while a    *)
(* token issued by the signer in use verifies.                              *)
C10_KeyRotation ==
    /\ tok.token # NoToken =>
          /\ tok.token.kid = tok.by.default_kid
          /\ tok.token.sec = tok.by.secret
    /\ (decoded # NoDecode /\ decoded.token = tok.token /\ tok.token # NoToken) =>
          /\ (HoldsIssuerKey /\ now <= tok.token.exp + LEEWAY) => decoded.res.ok
          /\ tok.by.default_kid \notin DOMAIN signer.keys =>
                decoded.res = Err("JWT signing key kid not found", tok.by.default_kid)
          /\ (Issuer(signer) = tok.by /\ now <= tok.token.exp + LEEWAY) => decoded.res.ok

C10_Witness ==
    /\ decoded # NoDecode /\ decoded.token = tok.token /\ tok.token # NoToken
    /\ tok.by.default_kid = "K1"
    /\ signer.default_kid = "K2"
    /\ "K1" \notin DOMAIN signer.keys
    /\ decoded.res = Err("JWT signing key kid not found", "K1")

(* C11: a token issued for addr with an exp that has not passed verifies  *)
(* on the signer that issued it, and the claims returned are that addr and *)
(* that exp.                                                                *)
C11_RoundTrip ==
    (/\ decoded # NoDecode /\ tok.token # NoToken /\ decoded.token = tok.token
     /\ tok.by = Issuer(signer)
     /\ now <= tok.exp) =>
        /\ decoded.res.ok
        /\ decoded.res.address = tok.addr
        /\ decoded.res.exp = tok.exp

(* a token for 0xB verified at the very second of its exp *)
C11_Witness ==
    /\ decoded # NoDecode /\ tok.token # NoToken /\ decoded.token = tok.token
    /\ tok.by = Issuer(signer)
    /\ tok.addr = "0xB"
    /\ now = tok.exp /\ now > 0
    /\ decoded.res.ok

-----------------------------------------------------------------------------
(* SpecConfig: the process starts from a configuration (main.rs): the      *)
(* signer is built from jwt_signer_keys and default_kid, and start-up      *)
(* stops if that fails; a signer that was built then issues tokens.        *)

Configs == [keys : KeyConfigLists, default_kid : Kids]
NotBuilt == [ok |-> FALSE, err |-> "not built", signer |-> NoSigner]

InitConfig ==
    /\ now = 0
    /\ config \in Configs
    /\ built = NotBuilt
    /\ signer = NoSigner
    /\ tok = NoIssued
    /\ decoded = NoDecode
    /\ JwtIdle

(* let jwt = JwtSigner::from_config(cfg.jwt_signer_keys.as_slice(), &cfg.default_kid)?; *)
ConfigStart ==
    /\ built = NotBuilt
    /\ built' = from_config(config.keys, config.default_kid)
    /\ signer' = built'.signer
    /\ UNCHANGED <<now, tok, decoded>>
    /\ JwtFrame

(* the running service issues a token; an Err of create_token leaves none *)
ConfigCreateToken(addr, exp) ==
    /\ built.ok
    /\ LET r == create_token(signer, addr, exp)
       IN tok' = IF r.ok
                 THEN [token |-> r.token, addr |-> addr, exp |-> exp, by |-> Issuer(signer)]
                 ELSE NoIssued
    /\ UNCHANGED <<now, signer, built, decoded>>
    /\ JwtFrame

NextConfig ==
    \/ ConfigStart
    \/ \E a \in Address, e \in 0..MaxExp : ConfigCreateToken(a, e)

SpecConfig == InitConfig /\ [][NextConfig]_vars

(* C12: from_config succeeds iff the default kid is the kid of one of the  *)
(* keys supplied; when it is not, construction fails and there is no       *)
(* signer; a signer that was constructed holds its default key, so         *)
(* create_token finds its signing key.                                      *)
C12_ConstructedIffDefaultKidPresent ==
    built # NotBuilt =>
        /\ built.ok <=> \E i \in 1..Len(config.keys) : config.keys[i].kid = config.default_kid
        /\ ~built.ok => (built.signer = NoSigner /\ signer = NoSigner /\ tok = NoIssued)
        /\ built.ok =>
              /\ signer = built.signer
              /\ signer.default_kid = config.default_kid
              /\ signer.default_kid \in DOMAIN signer.keys
              /\ create_token(signer, "0xA", 0).ok
              /\ tok # NoIssued => tok.token.kid = config.default_kid

(* keys are configured, but none of them under the default kid *)
C12_Witness ==
    /\ built # NotBuilt
    /\ Len(config.keys) = 2
    /\ ~built.ok
    /\ built.err = "default_kid not found in jwt_signer_keys"
    /\ signer = NoSigner

-----------------------------------------------------------------------------
(* auth/access_level.rs *)

AccessNone == [level |-> "None", address |-> ZERO_ADDRESS]
AccessFull == [level |-> "Full", address |-> ZERO_ADDRESS]
Basic(a) == [level |-> "Basic", address |-> a]
NoAccessLevel == [level |-> "absent", address |-> ZERO_ADDRESS]   \* Extensions holds none

(* is_authorized with a Basic arm that does not compare the address *)
is_authorized_any_basic(access, user) == access.level # "None"

is_authorized(access, user) ==
    CASE access.level = "None" -> FALSE
      [] access.level = "Basic" -> access.address = user
      [] access.level = "Full" -> TRUE

-----------------------------------------------------------------------------
(* auth/auth_middleware.rs *)

(* The Authorization header of a request: absent, present but not a        *)
(* well-formed "Bearer <token>", or a bearer token.                         *)
NoHeader == [kind |-> "none", token |-> NoToken]
MalformedHeader == [kind |-> "malformed", token |-> NoToken]
Bearer(t) == [kind |-> "bearer", token |-> t]

(* authenticate_user trying the JWT before the admin keys *)
authenticate_user_jwt_first(headers, keys, s, t) ==
    IF headers.kind # "bearer" THEN AccessNone
    ELSE LET claims == decode_token(s, headers.token, t)
         IN IF claims.ok THEN Basic(claims.address)
            ELSE IF headers.token \in keys THEN AccessFull
            ELSE AccessNone

authenticate_user(headers, keys, s, t) ==
    IF headers.kind # "bearer" THEN AccessNone
    ELSE IF headers.token \in keys THEN AccessFull
    ELSE LET claims == decode_token(s, headers.token, t)
         IN IF claims.ok THEN Basic(claims.address) ELSE AccessNone

(* authorize answering 401 to a request without a valid credential *)
authorize_rejecting(headers, keys, s, t) ==
    LET access == authenticate_user(headers, keys, s, t)
    IN IF access = AccessNone
       THEN [ext |-> NoAccessLevel, outcome |-> "Err"]
       ELSE [ext |-> access, outcome |-> "Ok"]

(* authorize: Extensions::insert replaces any AccessLevel already there,   *)
(* and the request is returned Ok.                                          *)
authorize(headers, keys, s, t) ==
    [ext |-> authenticate_user(headers, keys, s, t), outcome |-> "Ok"]

-----------------------------------------------------------------------------
(* SpecAuth: HTTP requests passing through the authentication middleware   *)
(* of a server configured with TestKeys and admin keys.                     *)

AdminKey == Opaque("admin-token-1")
(* an admin key that happens to be a well-formed token of this service *)
JwtShapedAdminKey == Jwt("K1", "s1", "0xA", 0)

AuthIdle ==
    /\ built = from_config(TestKeys, "K1")
    /\ signer = built.signer
    /\ config = TestConfig
    /\ tok = NoIssued
    /\ decoded = NoDecode
    /\ jwt_expiry_secs = 0
    /\ cache = <<>>
    /\ nonces = {}
    /\ passed = <<>>
    /\ req = <<>>
    /\ last = <<>>
    /\ px = IdlePx
    /\ vs = IdleVerify
    /\ minted = <<>>
    /\ issued = {}

AuthFrame == UNCHANGED <<signer, built, config, tok, decoded, api_keys, jwt_expiry_secs, cache,
                         nonces, passed, req, last, px, vs, minted, issued>>

InitAuth ==
    /\ now = 0
    /\ api_keys \in {{AdminKey}, {AdminKey, JwtShapedAdminKey}}
    /\ http = IdleHttp
    /\ AuthIdle

(* Bearer strings a client may send: admin keys, garbage, and JWTs with    *)
(* any header kid, HMAC secret, address and exp.                            *)
BearerCandidates ==
    {AdminKey, Opaque("not-an-admin-token")}
    \cup {Jwt(k, s, a, e) : k \in Kids \cup {NoKid}, s \in Secrets \cup {ForeignSecret},
                            a \in Address, e \in 0..MaxExp}

Authorize(headers) ==
    /\ http' = [hdr |-> headers, at |-> now,
                ext |-> authorize(headers, api_keys, signer, now).ext,
                outcome |-> authorize(headers, api_keys, signer, now).outcome]
    /\ UNCHANGED now
    /\ AuthFrame

AuthTick(t) ==
    /\ t > now
    /\ now' = t
    /\ UNCHANGED http
    /\ AuthFrame

NextAuth ==
    \/ \E h \in {NoHeader, MalformedHeader} \cup {Bearer(t) : t \in BearerCandidates} :
          Authorize(h)
    \/ \E t \in ClockInstants : AuthTick(t)

SpecAuth == InitAuth /\ [][NextAuth]_vars

-----------------------------------------------------------------------------
(* Claims about the middleware, under SpecAuth *)

(* What "verifies as a JWT" means at time t for the key set in use *)
VerifiesAsJwt(t, at) ==
    /\ t.fmt = "jwt"
    /\ t.kid \in DOMAIN signer.keys
    /\ t.sec = signer.keys[t.kid]
    /\ at <= t.exp + LEEWAY

(* C6: no or malformed bearer header gives None; a bearer token in the     *)
(* admin-key set gives Full, before any JWT decoding and whatever its exp;  *)
(* otherwise a token that verifies as a JWT gives Basic(claims.address) and *)
(* any verification failure gives None; Full never comes from a JWT.        *)
C6_AccessLevelResolution ==
    http.outcome # "none" =>
        LET h == http.hdr
        IN /\ h.kind # "bearer" => http.ext = AccessNone
           /\ (h.kind = "bearer" /\ h.token \in api_keys) => http.ext = AccessFull
           /\ (h.kind = "bearer" /\ h.token \notin api_keys /\ VerifiesAsJwt(h.token, http.at))
                 => http.ext = Basic(h.token.address)
           /\ (h.kind = "bearer" /\ h.token \notin api_keys /\ ~VerifiesAsJwt(h.token, http.at))
                 => http.ext = AccessNone
           /\ http.ext = AccessFull => (h.kind = "bearer" /\ h.token \in api_keys)

(* an admin key that is also an expired token of this service gives Full *)
C6_Witness ==
    /\ http.outcome = "Ok"
    /\ http.hdr = Bearer(JwtShapedAdminKey)
    /\ http.at > JwtShapedAdminKey.exp + LEEWAY
    /\ http.ext = AccessFull

(* C7: authorize never rejects: whatever the headers, it returns Ok with   *)
(* exactly one Access Level in the request extensions.                      *)
C7_NeverRejects ==
    http.outcome # "none" =>
        /\ http.outcome = "Ok"
        /\ http.ext \in {AccessNone, AccessFull} \cup {Basic(a) : a \in Address}

C7_Witness ==
    /\ http.outcome = "Ok"
    /\ http.hdr.kind = "malformed"
    /\ http.ext = AccessNone

-----------------------------------------------------------------------------
(* auth/error.rs *)

NoResult == [ok |-> FALSE, code |-> 0, detail |-> "none", nonce |-> "", token |-> NoToken]
RpcOk(token) == [ok |-> TRUE, code |-> 0, detail |-> "", nonce |-> "", token |-> token]

(* `nonce` carries the value formatted into the detail string, "" if none *)
invalid_params(detail, nonce) ==
    [ok |-> FALSE, code |-> INVALID_PARAMS_CODE, detail |-> detail, nonce |-> nonce,
     token |-> NoToken]
internal_error(detail) ==
    [ok |-> FALSE, code |-> INTERNAL_ERROR_CODE, detail |-> detail, nonce |-> "",
     token |-> NoToken]

-----------------------------------------------------------------------------
(* auth/siwe.rs: the nonce cache *)

(* the 64-character alphanumeric strings *)
Nonces == {"nonce1", "nonce2"}
NotCached == -1

(* time_to_live(300 s): an entry is live from its insert until 300 s have *)
(* elapsed.  An expired entry stays in the map until the cache's next      *)
(* maintenance run drops it; the program does not run maintenance itself,  *)
(* and whether remove() hands back an expired entry that is still in the   *)
(* map is the library's business.  swept says that the entry, if expired,  *)
(* is treated as gone.                                                      *)
cache_present(c, n, t, swept) ==
    c[n] # NotCached /\ (t < c[n] + NONCE_TTL \/ ~swept)

cache_insert(c, n, t) == [c EXCEPT ![n] = t]

(* the nonce looked up (Cache::get) instead of removed *)
cache_get(c, n, t, swept) == [present |-> cache_present(c, n, t, swept), cache |-> c]

(* Cache::remove: the value if present, and the entry is gone *)
cache_remove(c, n, t, swept) ==
    [present |-> cache_present(c, n, t, swept), cache |-> [c EXCEPT ![n] = NotCached]]

-----------------------------------------------------------------------------
(* auth/siwe.rs: signature verification *)

(* Code returned by eth_getCode: its length and whether it starts ef 01 00 *)
Codes == {[len |-> 0, ef0100 |-> FALSE], [len |-> 4, ef0100 |-> FALSE],
          [len |-> EIP7702_CODE_SIZE, ef0100 |-> TRUE],
          [len |-> EIP7702_CODE_SIZE, ef0100 |-> FALSE],
          [len |-> EIP7702_CODE_SIZE + 1, ef0100 |-> TRUE]}
GetCodeReplies == {[ok |-> TRUE, code |-> c] : c \in Codes}
                  \cup {[ok |-> FALSE, code |-> [len |-> 0, ef0100 |-> FALSE]]}

(* Bytes returned by eth_call isValidSignature: the length and whether the *)
(* first four bytes are 16 26 ba 7e                                         *)
CallReplies == {[ok |-> TRUE, len |-> 0, magic |-> FALSE],
                [ok |-> TRUE, len |-> 3, magic |-> FALSE],
                [ok |-> TRUE, len |-> 4, magic |-> TRUE],
                [ok |-> TRUE, len |-> 32, magic |-> TRUE],
                [ok |-> TRUE, len |-> 32, magic |-> FALSE],
                [ok |-> FALSE, len |-> 0, magic |-> FALSE]}

(* the classifier looking at the prefix alone *)
classify_account_prefix_only(reply) ==
    IF ~reply.ok THEN "err"
    ELSE IF reply.code.len = 0 THEN "Eoa"
    ELSE IF reply.code.ef0100 THEN "Eip7702"
    ELSE "Contract"

(* classify_account once get_code_at has answered: "err" on `?` *)
classify_account(reply) ==
    IF ~reply.ok THEN "err"
    ELSE IF reply.code.len = 0 THEN "Eoa"
    ELSE IF reply.code.len = EIP7702_CODE_SIZE /\ reply.code.ef0100 THEN "Eip7702"
    ELSE "Contract"

(* a return shorter than four bytes taken as a failed call *)
verify_erc1271_signature_short_is_error(reply) ==
    IF ~reply.ok \/ reply.len < 4 THEN "err"
    ELSE IF reply.magic THEN "true" ELSE "false"

(* verify_erc1271_signature once the call has answered *)
verify_erc1271_signature(reply) ==
    IF ~reply.ok THEN "err"
    ELSE IF reply.len >= 4 THEN (IF reply.magic THEN "true" ELSE "false")
    ELSE "false"

(* verify_eoa_signature: message.verify(signature, default opts) Ok or Err *)
verify_eoa_signature(sig) == IF sig.eoa THEN "true" ELSE "false"

(* verify_signature after classify_account: the result for an Eoa or a     *)
(* failed classification, "call" when the ERC-1271 call comes next          *)
verify_signature_classified(atype, sig) ==
    CASE atype = "err" -> "err"
      [] atype = "Eoa" -> verify_eoa_signature(sig)
      [] atype \in {"Contract", "Eip7702"} -> "call"

(* every account with code falling back to ECDSA *)
verify_signature_called_fallback_always(atype, sig, reply) ==
    IF verify_erc1271_signature(reply) = "true" THEN "true" ELSE verify_eoa_signature(sig)

(* the ERC-1271 call's error propagated with `?` for every account type *)
verify_signature_called_propagate(atype, sig, reply) ==
    LET erc1271_result == verify_erc1271_signature(reply)
    IN IF erc1271_result \in {"true", "err"} \/ atype = "Contract" THEN erc1271_result
       ELSE verify_eoa_signature(sig)

(* verify_signature after the ERC-1271 call *)
verify_signature_called(atype, sig, reply) ==
    LET erc1271_result == verify_erc1271_signature(reply)
    IN IF atype = "Contract" THEN erc1271_result
       ELSE IF erc1271_result = "true" THEN "true"
       ELSE verify_eoa_signature(sig)

-----------------------------------------------------------------------------
(* auth/siwe.rs: sign_in *)

Reqs == 1..MaxReqs

(* A signIn request: the message text either parses as SIWE or not (the    *)
(* nonce it mentions is kept either way); the signature either passes      *)
(* message.verify for that message or not.                                  *)
Messages == [parses : {TRUE}, address : Address, nonce : Nonces]
            \cup [parses : {FALSE}, address : {ZERO_ADDRESS}, nonce : Nonces]
Signatures == [eoa : BOOLEAN]

(* a request slot: position, arguments, and the locals of verify_signature *)
IdleReq == [pc |-> "idle", msg |-> [parses |-> FALSE, address |-> ZERO_ADDRESS, nonce |-> ""],
            sig |-> [eoa |-> FALSE], atype |-> "", calls |-> <<>>]

(* what is seen of a sign_in when it ends: how it ended, its arguments,    *)
(* whether it passed the nonce step, the upstream calls it made, what      *)
(* verify_signature returned, and the response                              *)
NoLast == [outcome |-> "none", msg |-> IdleReq.msg, sig |-> IdleReq.sig, consumed |-> FALSE,
           atype |-> "", calls |-> <<>>, verdict |-> "", res |-> NoResult]

(* step 2 with the nonce only looked up *)
sign_in_consume_get(c, message, t, swept) ==
    LET r == cache_get(c, message.nonce, t, swept)
    IN [pass |-> r.present, cache |-> r.cache,
        res |-> IF r.present THEN NoResult
                ELSE invalid_params("invalid message nonce", message.nonce)]

(* step 2: self.cache.remove(&message.nonce).await.is_none() *)
sign_in_consume(c, message, t, swept) ==
    LET r == cache_remove(c, message.nonce, t, swept)
    IN [pass |-> r.present, cache |-> r.cache,
        res |-> IF r.present THEN NoResult
                ELSE invalid_params("invalid message nonce", message.nonce)]

(* the nonce put back when verification did not succeed *)
cache_after_verify_restore(c, n, verdict, t) ==
    IF verdict # "true" THEN cache_insert(c, n, t) ELSE c

(* The cache when verify_signature has returned: no arm of the match at    *)
(* step 3, and nothing in step 4, touches it.                               *)
cache_after_verify(c, n, verdict, t) == c

(* step 3 letting Ok(false) through to step 4 *)
sign_in_finish_unverified(s, expiry, message, verdict, t) ==
    CASE verdict = "err" -> internal_error("signature verification failed")
      [] verdict \in {"true", "false"} ->
            LET exp == t + expiry
                r == create_token(s, message.address, exp)
            IN IF r.ok THEN RpcOk(r.token) ELSE internal_error("unable to issue token")

(* step 4 without the clock: exp = jwt_expiry_secs *)
sign_in_finish_exp_only(s, expiry, message, verdict, t) ==
    CASE verdict = "false" -> invalid_params("invalid message or signature", "")
      [] verdict = "err" -> internal_error("signature verification failed")
      [] verdict = "true" ->
            LET r == create_token(s, message.address, expiry)
            IN IF r.ok THEN RpcOk(r.token) ELSE internal_error("unable to issue token")

(* steps 3 and 4 once verify_signature has returned `verdict` *)
sign_in_finish(s, expiry, message, verdict, t) ==
    CASE verdict = "false" -> invalid_params("invalid message or signature", "")
      [] verdict = "err" -> internal_error("signature verification failed")
      [] verdict = "true" ->
            LET exp == t + expiry
                r == create_token(s, message.address, exp)
            IN IF r.ok THEN RpcOk(r.token) ELSE internal_error("unable to issue token")

-----------------------------------------------------------------------------------------------------------------------------------------------------
(* Spec: the SIWE RPC server: siwe_getNonce and siwe_signIn requests        *)
(* served concurrently, each sign_in suspending at its upstream calls.      *)

(* jwt_expiry_secs of the configuration: 3600 in the repository's configs *)
JwtExpiryChoices == {3600}

(* The instants observed: a nonce inserted at 0 is looked at just before   *)
(* and after the end of its time to live.                                   *)
SiweInstants == {0, NONCE_TTL - 1, NONCE_TTL + 1}

SiweFrame == UNCHANGED <<signer, built, config, tok, decoded, api_keys, jwt_expiry_secs, http,
                         px, vs, issued>>

Init ==
    /\ now = 0
    /\ built = from_config(TestKeys, "K1")
    /\ signer = built.signer
    /\ config = TestConfig
    /\ tok = NoIssued
    /\ decoded = NoDecode
    /\ api_keys = {AdminKey}
    /\ jwt_expiry_secs \in JwtExpiryChoices
    /\ cache = [n \in Nonces |-> NotCached]
    /\ nonces = {}
    /\ passed = [n \in Nonces |-> <<>>]
    /\ req = [r \in Reqs |-> IdleReq]
    /\ last = NoLast
    /\ http = IdleHttp
    /\ px = IdlePx
    /\ vs = IdleVerify
    /\ minted = [n \in Nonces |-> 0]
    /\ issued = {}

(* get_nonce: a nonce string never drawn before is inserted and returned *)
GetNonce(n) ==
    /\ n \notin {x.nonce : x \in nonces}
    /\ cache' = cache_insert(cache, n, now)
    /\ nonces' = nonces \cup {[nonce |-> n, at |-> now]}
    /\ last' = NoLast
    /\ UNCHANGED <<now, passed, req, minted>>
    /\ SiweFrame

(* verify_signature has returned `verdict`: steps 3 and 4 of sign_in, and  *)
(* the response leaves.                                                     *)
Finish(r, atype, calls, verdict) ==
    /\ req' = [req EXCEPT ![r] = IdleReq]
    /\ last' = [outcome |-> "returned", msg |-> req[r].msg, sig |-> req[r].sig,
                consumed |-> TRUE, atype |-> atype, calls |-> calls, verdict |-> verdict,
                res |-> sign_in_finish(signer, jwt_expiry_secs, req[r].msg, verdict, now)]
    /\ cache' = cache_after_verify(cache, req[r].msg.nonce, verdict, now)
    /\ minted' = IF last'.res.ok THEN [minted EXCEPT ![req[r].msg.nonce] = @ + 1] ELSE minted

(* sign_in up to its first upstream call: parse, consume the nonce, and    *)
(* send eth_getCode for the message's address.                              *)
SignInStart(r, message, signature, swept) ==
    /\ req[r].pc = "idle"
    /\ \A q \in Reqs : q < r => req[q].pc # "idle"     \* the first free slot takes it
    /\ swept \/ (message.parses /\ cache[message.nonce] # NotCached
                   /\ now >= cache[message.nonce] + NONCE_TTL)   \* only where it matters
    /\ LET c == sign_in_consume(cache, message, now, swept)
           early == [NoLast EXCEPT !.outcome = "returned", !.msg = message,
                                   !.sig = signature]
       IN IF ~message.parses
          THEN /\ last' = [early EXCEPT !.res = invalid_params("invalid message", "")]
               /\ UNCHANGED <<cache, passed, req>>
          ELSE /\ cache' = c.cache
               /\ IF c.pass
                  THEN /\ passed' = [passed EXCEPT ![message.nonce] = Append(@, now)]
                       /\ req' = [req EXCEPT ![r] = [pc |-> "get_code", msg |-> message,
                                     sig |-> signature, atype |-> "",
                                     calls |-> <<"eth_getCode">>]]
                       /\ last' = NoLast
                  ELSE /\ last' = [early EXCEPT !.res = c.res]
                       /\ UNCHANGED <<passed, req>>
    /\ UNCHANGED <<now, nonces, minted>>
    /\ SiweFrame

(* get_code_at answers: classify, then either decide or send the ERC-1271  *)
(* eth_call.                                                                *)
SignInGetCode(r, reply) ==
    /\ req[r].pc = "get_code"
    /\ LET atype == classify_account(reply)
           v == verify_signature_classified(atype, req[r].sig)
       IN IF v = "call"
          THEN /\ req' = [req EXCEPT ![r] = [@ EXCEPT !.pc = "eth_call", !.atype = atype,
                             !.calls = Append(@, "eth_call")]]
               /\ last' = NoLast
               /\ UNCHANGED <<cache, minted>>
          ELSE Finish(r, atype, req[r].calls, v)
    /\ UNCHANGED <<now, nonces, passed>>
    /\ SiweFrame

(* the isValidSignature eth_call answers *)
SignInEthCall(r, reply) ==
    /\ req[r].pc = "eth_call"
    /\ Finish(r, req[r].atype, req[r].calls,
              verify_signature_called(req[r].atype, req[r].sig, reply))
    /\ UNCHANGED <<now, nonces, passed>>
    /\ SiweFrame

(* the client disconnects while sign_in is suspended: the future is dropped *)
SignInCancel(r) ==
    /\ req[r].pc \in {"get_code", "eth_call"}
    /\ req' = [req EXCEPT ![r] = IdleReq]
    /\ last' = [NoLast EXCEPT !.outcome = "cancelled", !.msg = req[r].msg,
                              !.sig = req[r].sig, !.consumed = TRUE,
                              !.atype = req[r].atype, !.calls = req[r].calls]
    /\ UNCHANGED <<now, cache, nonces, passed, minted>>
    /\ SiweFrame

Tick(t) ==
    /\ t > now
    /\ now' = t
    /\ last' = NoLast
    /\ UNCHANGED <<cache, nonces, passed, req, minted>>
    /\ SiweFrame

Next ==
    \/ \E n \in Nonces : GetNonce(n)
    \/ \E r \in Reqs, m \in Messages, sg \in Signatures, swept \in BOOLEAN :
          SignInStart(r, m, sg, swept)
    \/ \E r \in Reqs, reply \in GetCodeReplies : SignInGetCode(r, reply)
    \/ \E r \in Reqs, reply \in CallReplies : SignInEthCall(r, reply)
    \/ \E r \in Reqs : SignInCancel(r)
    \/ \E t \in SiweInstants : Tick(t)

Spec == Init /\ [][Next]_vars

-----------------------------------------------------------------------------
(* Claims about the SIWE handshake, under Spec *)

IssuedAt(n) == {x.at : x \in {y \in nonces : y.nonce = n}}
InFlight(n) == {r \in Reqs : req[r].pc # "idle" /\ req[r].msg.nonce = n}
NonceRefused == last.outcome = "returned" /\ last.msg.parses /\ ~last.consumed

(* C2: of all sign_in calls that carry a nonce n, one after another or     *)
(* concurrently, at most one passes the nonce step; every other call that  *)
(* parsed gets invalid-params "invalid message nonce: n".                   *)
C2_AtMostOnePasses ==
    /\ \A n \in Nonces :
          /\ Len(passed[n]) <= 1
          /\ Cardinality(InFlight(n)) <= Len(passed[n])
    /\ NonceRefused =>
          last.res = [ok |-> FALSE, code |-> INVALID_PARAMS_CODE,
                      detail |-> "invalid message nonce", nonce |-> last.msg.nonce,
                      token |-> NoToken]

(* a second call with the nonce is refused while the first is still verifying *)
C2_Witness ==
    /\ NonceRefused
    /\ IssuedAt(last.msg.nonce) # {}
    /\ Len(passed[last.msg.nonce]) = 1
    /\ InFlight(last.msg.nonce) # {}
    /\ last.res.detail = "invalid message nonce"

(* C3: the nonce is out of the store before any verification call is made  *)
(* and nothing puts it back: whether verification returns false or an      *)
(* error, or the request is dropped, it stays absent and a later sign_in    *)
(* with it is refused at the nonce step.                                    *)
C3_ConsumedBeforeVerification ==
    /\ \A r \in Reqs : req[r].calls # <<>> =>
          /\ passed[req[r].msg.nonce] # <<>>
          /\ cache[req[r].msg.nonce] = NotCached
    /\ last.calls # <<>> => last.consumed
    /\ \A n \in Nonces : passed[n] # <<>> => cache[n] = NotCached
    /\ (last.outcome = "returned" /\ last.msg.parses /\ last.calls = <<>>
          /\ passed[last.msg.nonce] # <<>>) => last.res.detail = "invalid message nonce"

(* verification failed within the nonce's time to live, and the nonce is gone *)
C3_Witness ==
    /\ last.outcome = "returned"
    /\ last.verdict \in {"false", "err"}
    /\ \E at \in IssuedAt(last.msg.nonce) : now < at + NONCE_TTL
    /\ cache[last.msg.nonce] = NotCached

(* C5: sign_in returns a token only if, in that call, the message parsed,  *)
(* the nonce was present and removed and verify_signature returned true;    *)
(* the token carries the message's address and exp = now + jwt_expiry_secs. *)
(* A false verdict gives invalid-params "invalid message or signature", an  *)
(* error gives internal-error "signature verification failed", and neither  *)
(* carries a token.                                                         *)
C5_TokenOnlyOnSuccess ==
    last.outcome = "returned" =>
        /\ last.res.ok =>
              /\ last.msg.parses /\ last.consumed /\ last.verdict = "true"
              /\ cache[last.msg.nonce] = NotCached
              /\ last.res.token.fmt = "jwt"
              /\ last.res.token.address = last.msg.address
              /\ last.res.token.exp = now + jwt_expiry_secs
        /\ last.verdict = "false" =>
              last.res = [ok |-> FALSE, code |-> INVALID_PARAMS_CODE,
                          detail |-> "invalid message or signature", nonce |-> "",
                          token |-> NoToken]
        /\ last.verdict = "err" =>
              last.res = [ok |-> FALSE, code |-> INTERNAL_ERROR_CODE,
                          detail |-> "signature verification failed", nonce |-> "",
                          token |-> NoToken]
        /\ last.verdict # "true" => ~last.res.ok /\ last.res.token = NoToken

(* a contract account signs in some time after it fetched the nonce *)
C5_Witness ==
    /\ last.outcome = "returned"
    /\ last.res.ok
    /\ last.atype = "Contract"
    /\ now > 0
    /\ last.res.token = Jwt("K1", "s1", last.msg.address, now + jwt_expiry_secs)

(* C33: the tokens sign_in has returned are never more than the nonces    *)
(* get_nonce has returned, and each belongs to a nonce of its own that was  *)
(* issued: no nonce yields two tokens, whatever the calls that carry it,    *)
(* one after another or at once, with whatever address and signature.       *)
C33_OneTokenPerNonce ==
    /\ \A n \in Nonces :
          /\ minted[n] <= 1
          /\ minted[n] > 0 => (IssuedAt(n) # {} /\ passed[n] # <<>> /\ InFlight(n) = {})
    /\ Cardinality({n \in Nonces : minted[n] > 0}) <= Cardinality({x.nonce : x \in nonces})

(* a nonce has yielded its token and a further sign_in with it is refused *)
C33_Witness ==
    /\ NonceRefused
    /\ minted[last.msg.nonce] = 1
    /\ last.res.token = NoToken

-----------------------------------------------------------------------------
(* SpecVerify: sign_in calls served one after another, each followed       *)
(* through verify_signature with what the upstream answered and which       *)
(* signature checks ran.                                                    *)

(* Code returned by eth_getCode, around the two tests of classify_account: *)
(* empty, the bare prefix, one byte short, the exact size with and without *)
(* the prefix, one byte long, ordinary contract code                        *)
VerifyCodeReplies ==
    GetCodeReplies \cup {[ok |-> TRUE, code |-> c] :
                            c \in {[len |-> 3, ef0100 |-> TRUE],
                                   [len |-> EIP7702_CODE_SIZE - 1, ef0100 |-> TRUE],
                                   [len |-> 1, ef0100 |-> FALSE]}}

(* Return data of the isValidSignature eth_call: nothing, three bytes, the *)
(* four bytes 16 26 ba 7e alone, those four followed by one more byte, the *)
(* ABI word (the four bytes and 28 zero bytes), a word starting with them  *)
(* and ending otherwise, a word of something else; or the call fails.       *)
Returns == {[ok |-> TRUE, len |-> 0, magic |-> FALSE, tail |-> "none"],
            [ok |-> TRUE, len |-> 3, magic |-> FALSE, tail |-> "none"],
            [ok |-> TRUE, len |-> 4, magic |-> TRUE, tail |-> "none"],
            [ok |-> TRUE, len |-> 4, magic |-> FALSE, tail |-> "none"],
            [ok |-> TRUE, len |-> 5, magic |-> TRUE, tail |-> "other"],
            [ok |-> TRUE, len |-> 32, magic |-> TRUE, tail |-> "zero"],
            [ok |-> TRUE, len |-> 32, magic |-> TRUE, tail |-> "other"],
            [ok |-> TRUE, len |-> 32, magic |-> FALSE, tail |-> "zero"],
            [ok |-> FALSE, len |-> 0, magic |-> FALSE, tail |-> "none"]}

InitVerify ==
    /\ now = 0
    /\ built = from_config(TestKeys, "K1")
    /\ signer = built.signer
    /\ config = TestConfig
    /\ tok = NoIssued
    /\ decoded = NoDecode
    /\ api_keys = {AdminKey}
    /\ jwt_expiry_secs \in JwtExpiryChoices
    /\ cache = [n \in Nonces |-> NotCached]
    /\ nonces = {}
    /\ passed = [n \in Nonces |-> <<>>]
    /\ req = [r \in Reqs |-> IdleReq]
    /\ last = NoLast
    /\ http = IdleHttp
    /\ px = IdlePx
    /\ vs = IdleVerify
    /\ minted = <<>>
    /\ issued = {}

VerifyFrame == UNCHANGED <<now, signer, built, config, tok, decoded, api_keys, jwt_expiry_secs,
                           passed, req, last, http, px, minted>>

(* get_nonce, between two sign_in calls *)
VerifyGetNonce(n) ==
    /\ vs.pc \in {"idle", "done"}
    /\ n \notin {x.nonce : x \in nonces}
    /\ cache' = cache_insert(cache, n, now)
    /\ nonces' = nonces \cup {[nonce |-> n, at |-> now]}
    /\ vs' = IdleVerify
    /\ UNCHANGED issued
    /\ VerifyFrame

(* verify_signature has returned: steps 3 and 4 of sign_in *)
VerifyFinish(v, verdict) ==
    [v EXCEPT !.pc = "done", !.verdict = verdict,
              !.res = sign_in_finish(signer, jwt_expiry_secs, v.msg, verdict, now)]

(* the token of a sign_in that ends with Ok(token) joins the tokens handed out *)
Issue(v) ==
    IF v.pc = "done" /\ v.res.ok
    THEN issued \cup {[token |-> v.res.token, msg |-> v.msg, verdict |-> v.verdict]}
    ELSE issued

(* sign_in taking the nonce out of the store before it looks at the parse *)
VerifySignIn_consume_before_parse(message, signature, swept) ==
    /\ vs.pc \in {"idle", "done"}
    /\ LET c == sign_in_consume(cache, message, now, swept)
           v == [IdleVerify EXCEPT !.msg = message, !.sig = signature]
       IN /\ cache' = c.cache
          /\ vs' = IF ~message.parses
                   THEN [v EXCEPT !.pc = "done", !.res = invalid_params("invalid message", "")]
                   ELSE IF c.pass THEN [v EXCEPT !.pc = "get_code", !.consumed = TRUE]
                   ELSE [v EXCEPT !.pc = "done", !.res = c.res]
    /\ UNCHANGED <<nonces, issued>>
    /\ VerifyFrame

(* sign_in up to get_code_at: parse, consume the nonce *)
VerifySignIn(message, signature, swept) ==
    /\ vs.pc \in {"idle", "done"}
    /\ LET c == sign_in_consume(cache, message, now, swept)
           v == [IdleVerify EXCEPT !.msg = message, !.sig = signature]
       IN IF ~message.parses
          THEN /\ vs' = [v EXCEPT !.pc = "done", !.res = invalid_params("invalid message", "")]
               /\ UNCHANGED cache
          ELSE /\ cache' = c.cache
               /\ vs' = IF c.pass THEN [v EXCEPT !.pc = "get_code", !.consumed = TRUE]
                        ELSE [v EXCEPT !.pc = "done", !.res = c.res]
    /\ UNCHANGED <<nonces, issued>>
    /\ VerifyFrame

(* get_code_at answers: classify; an Eoa runs verify_eoa_signature, a      *)
(* failed call leaves with `?`, the others go on to the ERC-1271 call        *)
VerifyGetCode(reply) ==
    /\ vs.pc = "get_code"
    /\ LET atype == classify_account(reply)
           verdict == verify_signature_classified(atype, vs.sig)
           v == [vs EXCEPT !.code = reply, !.atype = atype]
       IN vs' = IF verdict = "call" THEN [v EXCEPT !.pc = "eth_call"]
                ELSE VerifyFinish([v EXCEPT !.ran = IF atype = "Eoa" THEN <<"ecdsa">> ELSE <<>>],
                                  verdict)
    /\ issued' = Issue(vs')
    /\ UNCHANGED <<cache, nonces>>
    /\ VerifyFrame

(* the isValidSignature call answers; on an Eip7702 account anything but   *)
(* Ok(true) is followed by verify_eoa_signature                              *)
VerifyEthCall(reply) ==
    /\ vs.pc = "eth_call"
    /\ LET erc1271_result == verify_erc1271_signature(reply)
           fallback == vs.atype = "Eip7702" /\ erc1271_result # "true"
           v == [vs EXCEPT !.ret = reply,
                           !.ran = IF fallback THEN <<"erc1271", "ecdsa">> ELSE <<"erc1271">>]
       IN vs' = VerifyFinish(v, verify_signature_called(vs.atype, vs.sig, reply))
    /\ issued' = Issue(vs')
    /\ UNCHANGED <<cache, nonces>>
    /\ VerifyFrame

NextVerify ==
    \/ \E n \in Nonces : VerifyGetNonce(n)
    \/ \E m \in Messages, sg \in Signatures, swept \in BOOLEAN : VerifySignIn(m, sg, swept)
    \/ \E reply \in VerifyCodeReplies : VerifyGetCode(reply)
    \/ \E reply \in Returns : VerifyEthCall(reply)

SpecVerify == InitVerify /\ [][NextVerify]_vars

(* the sign_in just answered got as far as verify_signature *)
Verified == vs.pc = "done" /\ vs.consumed

(* C21: the account is classified from the code the upstream reports:      *)
(* empty code is Eoa; code of exactly 23 bytes beginning ef 01 00 is        *)
(* Eip7702; all other non-empty code is Contract, 23 bytes with another     *)
(* prefix and the prefix at another length included.                        *)
C21_Classification ==
    (vs.pc \in {"eth_call", "done"} /\ vs.consumed /\ vs.code.ok) =>
        /\ vs.code.code.len = 0 => vs.atype = "Eoa"
        /\ (vs.code.code.len = EIP7702_CODE_SIZE /\ vs.code.code.ef0100) => vs.atype = "Eip7702"
        /\ (vs.code.code.len > 0
              /\ ~(vs.code.code.len = EIP7702_CODE_SIZE /\ vs.code.code.ef0100)) =>
                 vs.atype = "Contract"
        /\ vs.atype = "Eip7702" =>
              (vs.code.code.len = EIP7702_CODE_SIZE /\ vs.code.code.ef0100)

(* code with the prefix, one byte longer than a delegation, is a Contract *)
C21_Witness ==
    /\ vs.pc = "eth_call"
    /\ vs.code.code = [len |-> EIP7702_CODE_SIZE + 1, ef0100 |-> TRUE]
    /\ vs.atype = "Contract"

(* the isValidSignature call was made and answered / failed in the call layer *)
Called == vs.ret # IdleVerify.ret
Accepted1271 == Called /\ vs.ret.ok /\ vs.ret.len >= 4 /\ vs.ret.magic
CallFailed == Called /\ ~vs.ret.ok

(* C22: verify_signature dispatches on the account type.  Eoa: only the    *)
(* ECDSA check runs and decides.  Contract: only the ERC-1271 call runs and *)
(* decides, with no ECDSA fallback.  Eip7702: the ERC-1271 call runs first, *)
(* the ECDSA check only if that did not accept, and the signature is valid  *)
(* iff either accepts.                                                      *)
C22_VerifierDispatch ==
    (Verified /\ vs.atype \in {"Eoa", "Contract", "Eip7702"}) =>
        /\ vs.atype = "Eoa" =>
              /\ vs.ran = <<"ecdsa">> /\ ~Called
              /\ vs.verdict = IF vs.sig.eoa THEN "true" ELSE "false"
        /\ vs.atype = "Contract" =>
              /\ vs.ran = <<"erc1271">> /\ Called
              /\ (vs.verdict = "true") <=> Accepted1271
              /\ (vs.verdict = "false") <=> (vs.ret.ok /\ ~Accepted1271)
        /\ vs.atype = "Eip7702" =>
              /\ Called
              /\ vs.ran = IF Accepted1271 THEN <<"erc1271">> ELSE <<"erc1271", "ecdsa">>
              /\ (vs.verdict = "true") <=> (Accepted1271 \/ vs.sig.eoa)
              /\ vs.verdict \in {"true", "false"}

(* a delegated account whose code answers something else, signed by its key *)
C22_Witness ==
    /\ Verified
    /\ vs.atype = "Eip7702"
    /\ vs.ret.ok /\ ~vs.ret.magic
    /\ vs.sig.eoa
    /\ vs.ran = <<"erc1271", "ecdsa">>
    /\ vs.verdict = "true"

(* C23: a call-layer error of the ERC-1271 call on an Eip7702 account      *)
(* counts as not valid by that path: the ECDSA check still runs and decides,*)
(* and sign_in answers with the token or "invalid message or signature",    *)
(* never an internal error.  The same error on a Contract account makes     *)
(* sign_in answer internal-error "signature verification failed".           *)
C23_CallErrorTieBreak ==
    (Verified /\ CallFailed) =>
        /\ vs.atype = "Eip7702" =>
              /\ vs.ran = <<"erc1271", "ecdsa">>
              /\ vs.res = IF vs.sig.eoa
                          THEN RpcOk(Jwt("K1", "s1", vs.msg.address, now + jwt_expiry_secs))
                          ELSE invalid_params("invalid message or signature", "")
              /\ vs.res.code # INTERNAL_ERROR_CODE
        /\ vs.atype = "Contract" =>
              /\ vs.ran = <<"erc1271">>
              /\ vs.res = [ok |-> FALSE, code |-> INTERNAL_ERROR_CODE,
                           detail |-> "signature verification failed", nonce |-> "",
                           token |-> NoToken]

(* the call fails on a delegated account and its key's signature signs it in *)
C23_Witness ==
    /\ Verified /\ CallFailed
    /\ vs.atype = "Eip7702"
    /\ vs.sig.eoa
    /\ vs.res.ok

C31_EarlyReturnFrame ==
    [][(vs'.pc = "done" /\ ~vs'.consumed) =>
          /\ ~vs'.res.ok /\ vs'.res.code = INVALID_PARAMS_CODE /\ vs'.res.token = NoToken
          /\ vs'.code = IdleVerify.code /\ vs'.ret = IdleVerify.ret /\ vs'.ran = <<>>
          /\ UNCHANGED <<nonces, tok, signer>>
          /\ ~vs'.msg.parses =>
                /\ cache' = cache
                /\ vs'.res = invalid_params("invalid message", "")
          /\ vs'.msg.parses =>
                /\ cache[vs'.msg.nonce] = NotCached
                /\ vs'.res = invalid_params("invalid message nonce", vs'.msg.nonce)]_vars

(* a malformed message mentions a nonce that is in the store, and it stays *)
C31_Witness ==
    /\ vs.pc = "done"
    /\ ~vs.msg.parses
    /\ vs.res = invalid_params("invalid message", "")
    /\ cache[vs.msg.nonce] # NotCached

-----------------------------------------------------------------------------
(* SpecSession: the service as a whole: get_nonce and sign_in calls, and    *)
(* requests passing through the middleware, which shares the JwtSigner of   *)
(* sign_in (main.rs: jwt.clone()), as time passes.                          *)

(* Bearer strings a client can send without a secret of the key set: the   *)
(* tokens sign_in has handed out, an admin key, garbage, and tokens of its  *)
(* own making, whose HMAC no key of the set produced                        *)
SessionBearers ==
    {i.token : i \in issued}
    \cup {AdminKey}
    \cup {Jwt("K1", ForeignSecret, "0xA", now + jwt_expiry_secs)}

(* the steps of sign_in with the upstream answers that decide a verdict, *)
(* requests through the middleware, and the clock reaching the last      *)
(* second of a token issued at 0 and the one after it                    *)
NextSession ==
    \/ \E n \in Nonces : VerifyGetNonce(n)
    \/ \E m \in Messages, sg \in Signatures, swept \in BOOLEAN : VerifySignIn(m, sg, swept)
    \/ \E reply \in GetCodeReplies : VerifyGetCode(reply)
    \/ \E reply \in {r \in Returns : r.len = 32 \/ ~r.ok} : VerifyEthCall(reply)
    \/ \E h \in {NoHeader} \cup {Bearer(t) : t \in SessionBearers} : Authorize(h)
    \/ \E t \in {jwt_expiry_secs + LEEWAY, jwt_expiry_secs + LEEWAY + 1} : AuthTick(t)

SpecSession == InitVerify /\ [][NextSession]_vars

(* C32: a request is resolved to Basic(a) only if an earlier sign_in        *)
(* returned the request's bearer token for a message whose address is a,    *)
(* after verify_signature returned true for it, and the token is not past   *)
(* its exp by more than the leeway and its kid is in the key set.           *)
C32_BasicOnlyFromSignIn ==
    (http.outcome # "none" /\ http.ext.level = "Basic") =>
        \E i \in issued :
            /\ http.hdr = Bearer(i.token)
            /\ i.msg.parses /\ i.msg.address = http.ext.address
            /\ i.verdict = "true"
            /\ http.at <= i.token.exp + LEEWAY
            /\ i.token.kid \in DOMAIN signer.keys

(* the token of a contract account's sign_in is used in its last second *)
C32_Witness ==
    /\ http.outcome = "Ok"
    /\ http.ext = Basic("0xB")
    /\ http.at = jwt_expiry_secs + LEEWAY
    /\ \E i \in issued : http.hdr = Bearer(i.token) /\ i.token.exp = jwt_expiry_secs

-----------------------------------------------------------------------------
(* proxy/error.rs *)

NoValue == [kind |-> "none", id |-> "", from |-> ZERO_ADDRESS, to |-> ""]
NoRpcResult == [ok |-> FALSE, code |-> 0, message |-> "none", data |-> "", value |-> NoValue]
OkUnit == [ok |-> TRUE, code |-> 0, message |-> "", data |-> "", value |-> NoValue]
RpcResultOk(v) == [ok |-> TRUE, code |-> 0, message |-> "", data |-> "", value |-> v]

unauthorized ==
    [ok |-> FALSE, code |-> INVALID_REQUEST_CODE, message |-> "unauthorized",
     data |-> "unauthorized", value |-> NoValue]

proxy_internal_error(msg) ==
    [ok |-> FALSE, code |-> INTERNAL_ERROR_CODE, message |-> "internal_error",
     data |-> msg, value |-> NoValue]

(* every client error flattened into an internal error *)
proxy_call_failed_flatten_all(e) ==
    [ok |-> FALSE, code |-> INTERNAL_ERROR_CODE, message |-> "Internal error",
     data |-> "proxy_call_failed", value |-> NoValue]

(* ClientError::Call carries the upstream's error object, passed on as is; *)
(* every other client error becomes an internal error.                     *)
proxy_call_failed(e) ==
    IF e.kind = "Call" THEN e.error
    ELSE [ok |-> FALSE, code |-> INTERNAL_ERROR_CODE, message |-> "Internal error",
          data |-> "proxy_call_failed", value |-> NoValue]

(* proxy_call!: the client's result with its error mapped *)
proxy_call(reply) ==
    IF reply.kind = "ok" THEN RpcResultOk(reply.value) ELSE proxy_call_failed(reply)

(* a handler whose unwrap() met an Err: the task unwinds, nothing is returned *)
Panicked(what) ==
    [ok |-> FALSE, code |-> 0, message |-> "panic", data |-> what, value |-> NoValue]

-----------------------------------------------------------------------------
(* proxy/server.rs: access helpers *)

(* a request without an AccessLevel taken as trusted *)
get_access_default_full(ext) == IF ext = NoAccessLevel THEN AccessFull ELSE ext

get_access(ext) == IF ext = NoAccessLevel THEN AccessNone ELSE ext

(* only_authorized letting every signed-in caller through *)
only_authorized_any_basic(ext, address) ==
    IF get_access(ext) = AccessNone THEN unauthorized ELSE OkUnit

only_authorized(ext, address) ==
    IF ~is_authorized(get_access(ext), address) THEN unauthorized ELSE OkUnit

(* only_full_access refusing only the callers without any access *)
only_full_access_not_none(ext) ==
    IF get_access(ext) = AccessNone THEN unauthorized ELSE OkUnit

only_full_access(ext) ==
    IF get_access(ext) # AccessFull THEN unauthorized ELSE OkUnit

-----------------------------------------------------------------------------
(* What the handlers are called with and what the upstreams answer *)

Hashes == {"H1", "H2"}
NoAddress == ""      \* the method takes no address
NoTo == ""

(* Extensions of a request: the AccessLevel the middleware attached, if    *)
(* any.  Basic carries the address of whatever token verified, the zero    *)
(* address included.                                                        *)
Exts == {NoAccessLevel, AccessNone, AccessFull}
        \cup {Basic(a) : a \in Address \cup {ZERO_ADDRESS}}

(* The bytes of eth_sendRawTransaction: what decoding them gives.  fault   *)
(* names the step that fails: TransactionSigned::decode, the conversion to *)
(* PooledTransaction, recover_signer, or none.                              *)
RawFaults == {"decode", "try_into", "recover_signer"}
NoBytes == [fault |-> "none", from |-> ZERO_ADDRESS, to |-> NoTo]
RawTxs ==
    {[fault |-> "none", from |-> f, to |-> t] : f \in Address, t \in Address \cup {NoTo}}
    \cup {[fault |-> x, from |-> ZERO_ADDRESS, to |-> NoTo] : x \in RawFaults}

Null == [kind |-> "null", id |-> "", from |-> ZERO_ADDRESS, to |-> NoTo]
OpaqueValues == {[kind |-> "result", id |-> i, from |-> ZERO_ADDRESS, to |-> NoTo] : i \in {"r1", "r2"}}
Txs(h) == {[kind |-> "tx", id |-> h, from |-> f, to |-> t] : f \in Address, t \in Address \cup {NoTo}}
Receipts(h) == {[kind |-> "receipt", id |-> h, from |-> f, to |-> t] : f \in Address, t \in Address \cup {NoTo}}
(* Vec<Withdrawal>: empty (id "") or holding a withdrawal of transaction id *)
WithdrawalLists(h) == {[kind |-> "withdrawals", id |-> i, from |-> ZERO_ADDRESS, to |-> NoTo] : i \in {"", h}}
(* Option<Withdrawal>: None or a withdrawal whose tx_hash is id *)
MaybeWithdrawals == {Null} \cup {[kind |-> "withdrawal", id |-> h, from |-> ZERO_ADDRESS, to |-> NoTo] : h \in Hashes}

(* tx.to().unwrap_or_default() *)
to_or_default(v) == IF v.to = NoTo THEN ZERO_ADDRESS ELSE v.to

(* an error object an upstream answers with *)
UpstreamError ==
    [ok |-> FALSE, code |-> -32000, message |-> "execution reverted", data |-> "", value |-> NoValue]

NoReply == [kind |-> "none", value |-> NoValue, error |-> NoRpcResult]

Replies(values) ==
    {[kind |-> "ok", value |-> v, error |-> NoRpcResult] : v \in values}
    \cup {[kind |-> "Call", value |-> NoValue, error |-> UpstreamError],
          [kind |-> "Transport", value |-> NoValue, error |-> NoRpcResult]}

-----------------------------------------------------------------------------
(* SpecProxy: one request at a time through RpcProxyImpl.  The handlers    *)
(* share no state, so concurrent requests do not interact.  px.calls is    *)
(* the list of upstream calls the request has made.                        *)

ProxyFrame == UNCHANGED <<now, signer, built, config, tok, decoded, api_keys, jwt_expiry_secs, cache,
                          nonces, passed, req, last, http, vs, minted, issued>>

InitProxy ==
    /\ now = 0
    /\ built = from_config(TestKeys, "K1")
    /\ signer = built.signer
    /\ config = TestConfig
    /\ tok = NoIssued
    /\ decoded = NoDecode
    /\ api_keys = {AdminKey}
    /\ jwt_expiry_secs = 0
    /\ cache = <<>>
    /\ nonces = {}
    /\ passed = <<>>
    /\ req = <<>>
    /\ last = <<>>
    /\ http = IdleHttp
    /\ px = IdlePx
    /\ vs = IdleVerify
    /\ minted = <<>>
    /\ issued = {}

Ready == px.pc \in {"idle", "done", "panicked"}

Begin(method, ext, address, hash, bytes) ==
    [pc |-> "begin", method |-> method, ext |-> ext, address |-> address, hash |-> hash,
     bytes |-> bytes, calls |-> <<>>, ws |-> NoValue, reply |-> NoReply, res |-> NoRpcResult]

Return(p, res) == [p EXCEPT !.pc = "done", !.res = res]

Panic(p, what) == [p EXCEPT !.pc = "panicked", !.res = Panicked(what)]

(* the awaited client call has returned `reply` *)
Got(p, reply) == [p EXCEPT !.reply = reply]

(* the request is sent to an upstream and the handler awaits the answer *)
CallUpstream(p, upstream, method, arg) ==
    [p EXCEPT !.pc = upstream,
              !.calls = Append(@, [upstream |-> upstream, method |-> method, arg |-> arg])]

(* handlers of the form  only_full_access(ext)?; proxy_call!(..) *)
FullOnly(method, ext, address) ==
    /\ Ready
    /\ LET p == Begin(method, ext, address, "", NoBytes)
           check == only_full_access(ext)
       IN px' = IF ~check.ok THEN Return(p, check)
                ELSE CallUpstream(p, "sequencer", method, address)
    /\ ProxyFrame

(* handlers of the form  only_authorized(ext, &address)?; proxy_call!(..) *)
OwnerOnly(method, ext, address) ==
    /\ Ready
    /\ LET p == Begin(method, ext, address, "", NoBytes)
           check == only_authorized(ext, address)
       IN px' = IF ~check.ok THEN Return(p, check)
                ELSE CallUpstream(p, "sequencer", method, address)
    /\ ProxyFrame

(* a public handler that turns AccessLevel::None away *)
Public_signed_in_only(method, ext) ==
    /\ Ready
    /\ LET p == Begin(method, ext, NoAddress, "", NoBytes)
       IN px' = IF get_access(ext) = AccessNone THEN Return(p, unauthorized)
                ELSE CallUpstream(p, "sequencer", method, "")
    /\ ProxyFrame

(* handlers of the form  proxy_call!(..) *)
Public(method, ext) ==
    /\ Ready
    /\ px' = CallUpstream(Begin(method, ext, NoAddress, "", NoBytes), "sequencer", method, "")
    /\ ProxyFrame

(* a price handler that asks the sequencer *)
Free_forwarding(method, ext) ==
    /\ Ready
    /\ px' = CallUpstream(Begin(method, ext, NoAddress, "", NoBytes), "sequencer", method, "")
    /\ ProxyFrame

(* handlers of the form  Ok(U256::ZERO) *)
Free(method, ext) ==
    /\ Ready
    /\ px' = Return(Begin(method, ext, NoAddress, "", NoBytes),
                    RpcResultOk([kind |-> "zero", id |-> "", from |-> ZERO_ADDRESS, to |-> NoTo]))
    /\ ProxyFrame

(* handlers that refuse AccessLevel::None and then call upstream with a hash *)
SignedInOnly(method, ext, hash, upstream) ==
    /\ Ready
    /\ LET p == Begin(method, ext, NoAddress, hash, NoBytes)
           access == get_access(ext)
       IN px' = IF access = AccessNone THEN Return(p, unauthorized)
                ELSE CallUpstream(p, upstream, method, hash)
    /\ ProxyFrame

l1_messages_in_block(ext) == FullOnly("scroll_getL1MessagesInBlock", ext, NoAddress)
block_by_hash(ext) == FullOnly("eth_getBlockByHash", ext, NoAddress)
block_by_number(ext) == FullOnly("eth_getBlockByNumber", ext, NoAddress)
storage_at(ext, address) == FullOnly("eth_getStorageAt", ext, address)
get_code(ext, address) == FullOnly("eth_getCode", ext, address)
call(ext) == FullOnly("eth_call", ext, NoAddress)
estimate_gas(ext) == FullOnly("eth_estimateGas", ext, NoAddress)
logs(ext) == FullOnly("eth_getLogs", ext, NoAddress)

balance(ext, address) == OwnerOnly("eth_getBalance", ext, address)
transaction_count(ext, address) == OwnerOnly("eth_getTransactionCount", ext, address)

block_number(ext) == Public("eth_blockNumber", ext)
chain_id(ext) == Public("eth_chainId", ext)
fee_history(ext) == Public("eth_feeHistory", ext)

gas_price(ext) == Free("eth_gasPrice", ext)
max_priority_fee_per_gas(ext) == Free("eth_maxPriorityFeePerGas", ext)

transaction_by_hash(ext, hash) ==
    SignedInOnly("eth_getTransactionByHash", ext, hash, "sequencer")
transaction_receipt(ext, hash) ==
    SignedInOnly("eth_getTransactionReceipt", ext, hash, "sequencer")
withdrawals_by_transaction(ext, tx_hash) ==
    SignedInOnly("scroll_withdrawalsByTransaction", ext, tx_hash, "withdraw_proofs")
withdrawal_by_message_hash(ext, message_hash) ==
    SignedInOnly("scroll_withdrawalByMessageHash", ext, message_hash, "withdraw_proofs")

(* the checks of send_raw_transaction without the test of `to` *)
send_raw_transaction_check_any_to(access, bytes) ==
    IF access = AccessNone THEN "deny"
    ELSE IF access.level = "Basic"
         THEN IF bytes.fault # "none" THEN bytes.fault
              ELSE IF ~is_authorized(access, bytes.from) THEN "deny"
              ELSE "forward"
    ELSE "forward"

(* send_raw_transaction up to the proxy call: what the checks on the bytes *)
(* give, "forward", "deny", or the unwrap() that panics.                   *)
send_raw_transaction_check(access, bytes) ==
    IF access = AccessNone THEN "deny"
    ELSE IF access.level = "Basic"
         THEN IF bytes.fault # "none" THEN bytes.fault
              ELSE IF ~is_authorized(access, bytes.from) \/ bytes.to = NoTo THEN "deny"
              ELSE "forward"
    ELSE "forward"

send_raw_transaction(ext, bytes) ==
    /\ Ready
    /\ LET p == Begin("eth_sendRawTransaction", ext, NoAddress, "", bytes)
           check == send_raw_transaction_check(get_access(ext), bytes)
       IN px' = CASE check = "deny" -> Return(p, unauthorized)
                  [] check = "forward" -> CallUpstream(p, "sequencer", "eth_sendRawTransaction", "")
                  [] OTHER -> Panic(p, check)
    /\ ProxyFrame

PassThrough ==
    {"scroll_getL1MessagesInBlock", "eth_getBlockByHash", "eth_getBlockByNumber",
     "eth_getStorageAt", "eth_getCode", "eth_call", "eth_estimateGas", "eth_getLogs",
     "eth_getBalance", "eth_getTransactionCount", "eth_blockNumber", "eth_chainId",
     "eth_feeHistory", "eth_sendRawTransaction"}

(* the sequencer answers a call whose result the handler returns as it is *)
ProxyCallReply(reply) ==
    /\ px.pc = "sequencer"
    /\ px.method \in PassThrough
    /\ px' = Return(Got(px, reply), proxy_call(reply))
    /\ ProxyFrame

(* the post-check comparing `to` only where there is one *)
transaction_post_check_to_if_present(access, reply) ==
    LET r == proxy_call(reply)
    IN IF ~r.ok THEN r
       ELSE IF r.value = Null THEN r
       ELSE IF r.value.to # NoTo /\ is_authorized(access, r.value.to) THEN r
       ELSE IF is_authorized(access, r.value.from) THEN r
       ELSE unauthorized

(* transaction_by_hash and transaction_receipt after the proxy call: the   *)
(* receiver, then the sender, may see the transaction.                      *)
transaction_post_check(access, reply) ==
    LET r == proxy_call(reply)
    IN IF ~r.ok THEN r
       ELSE IF r.value = Null THEN r
       ELSE IF is_authorized(access, to_or_default(r.value)) THEN r
       ELSE IF is_authorized(access, r.value.from) THEN r
       ELSE unauthorized

TransactionByHashReply(reply) ==
    /\ px.pc = "sequencer"
    /\ px.method = "eth_getTransactionByHash"
    /\ px' = Return(Got(px, reply), transaction_post_check(get_access(px.ext), reply))
    /\ ProxyFrame

TransactionReceiptReply(reply) ==
    /\ px.pc = "sequencer"
    /\ px.method = "eth_getTransactionReceipt"
    /\ px' = Return(Got(px, reply), transaction_post_check(get_access(px.ext), reply))
    /\ ProxyFrame

(* the two withdrawal handlers after the withdraw-proofs call: an error,   *)
(* an empty answer or Full access ends the request, otherwise the          *)
(* transaction is looked up on the sequencer.                               *)
(* only an absent withdrawal counted as empty, not an empty list *)
withdrawal_is_empty_absent_only(v) == v = Null

withdrawal_is_empty(v) == v = Null \/ (v.kind = "withdrawals" /\ v.id = "")

WithdrawProofsReply(reply) ==
    /\ px.pc = "withdraw_proofs"
    /\ LET r == proxy_call(reply)
           access == get_access(px.ext)
           p == Got(px, reply)
       IN px' = IF ~r.ok THEN Return(p, r)
                ELSE IF withdrawal_is_empty(r.value) \/ access = AccessFull THEN Return(p, r)
                ELSE CallUpstream([p EXCEPT !.ws = r.value], "sequencer",
                                  "eth_getTransactionByHash",
                                  IF px.method = "scroll_withdrawalsByTransaction"
                                  THEN px.hash ELSE r.value.id)
    /\ ProxyFrame

(* the withdrawal post-check letting the recipient of the transaction in *)
withdrawal_post_check_recipient_too(access, ws, reply) ==
    LET r == proxy_call(reply)
    IN IF ~r.ok THEN r
       ELSE IF r.value = Null THEN proxy_internal_error("transaction not found")
       ELSE IF is_authorized(access, r.value.from) \/ is_authorized(access, to_or_default(r.value))
            THEN RpcResultOk(ws)
       ELSE unauthorized

withdrawal_post_check(access, ws, reply) ==
    LET r == proxy_call(reply)
    IN IF ~r.ok THEN r
       ELSE IF r.value = Null THEN proxy_internal_error("transaction not found")
       ELSE IF is_authorized(access, r.value.from) THEN RpcResultOk(ws)
       ELSE unauthorized

WithdrawalLookupReply(reply) ==
    /\ px.pc = "sequencer"
    /\ px.method \in {"scroll_withdrawalsByTransaction", "scroll_withdrawalByMessageHash"}
    /\ px' = Return(Got(px, reply), withdrawal_post_check(get_access(px.ext), px.ws, reply))
    /\ ProxyFrame

(* the argument of the call the request is waiting on *)
AwaitedArg == IF px.calls = <<>> THEN "" ELSE px.calls[Len(px.calls)].arg

(* what withdraw-proofs answers with: Vec<Withdrawal> to                   *)
(* withdrawals_by_transaction, Option<Withdrawal> to                       *)
(* withdrawal_by_message_hash                                               *)
AwaitedWithdrawals ==
    IF px.method = "scroll_withdrawalsByTransaction"
    THEN WithdrawalLists(px.hash) ELSE MaybeWithdrawals

NextProxy ==
    \/ \E ext \in Exts : l1_messages_in_block(ext)
    \/ \E ext \in Exts, h \in Hashes : withdrawals_by_transaction(ext, h)
    \/ \E ext \in Exts, h \in Hashes : withdrawal_by_message_hash(ext, h)
    \/ \E ext \in Exts : block_number(ext)
    \/ \E ext \in Exts : chain_id(ext)
    \/ \E ext \in Exts : block_by_hash(ext)
    \/ \E ext \in Exts : block_by_number(ext)
    \/ \E ext \in Exts, a \in Address : balance(ext, a)
    \/ \E ext \in Exts, a \in Address : storage_at(ext, a)
    \/ \E ext \in Exts, h \in Hashes : transaction_by_hash(ext, h)
    \/ \E ext \in Exts, h \in Hashes : transaction_receipt(ext, h)
    \/ \E ext \in Exts, a \in Address : transaction_count(ext, a)
    \/ \E ext \in Exts, a \in Address : get_code(ext, a)
    \/ \E ext \in Exts : call(ext)
    \/ \E ext \in Exts : estimate_gas(ext)
    \/ \E ext \in Exts : gas_price(ext)
    \/ \E ext \in Exts : max_priority_fee_per_gas(ext)
    \/ \E ext \in Exts : fee_history(ext)
    \/ \E ext \in Exts, bytes \in RawTxs : send_raw_transaction(ext, bytes)
    \/ \E ext \in Exts : logs(ext)
    \/ \E reply \in Replies(OpaqueValues) : ProxyCallReply(reply)
    \/ \E reply \in Replies({Null} \cup Txs(px.hash)) : TransactionByHashReply(reply)
    \/ \E reply \in Replies({Null} \cup Receipts(px.hash)) : TransactionReceiptReply(reply)
    \/ \E reply \in Replies(AwaitedWithdrawals) : WithdrawProofsReply(reply)
    \/ \E reply \in Replies({Null} \cup Txs(AwaitedArg)) : WithdrawalLookupReply(reply)

SpecProxy == InitProxy /\ [][NextProxy]_vars

-----------------------------------------------------------------------------
(* Claims about the proxy, under SpecProxy *)

FullOnlyMethods ==
    {"scroll_getL1MessagesInBlock", "eth_getBlockByHash", "eth_getBlockByNumber",
     "eth_getStorageAt", "eth_getCode", "eth_call", "eth_estimateGas", "eth_getLogs"}
OwnerOnlyMethods == {"eth_getBalance", "eth_getTransactionCount"}
SignedInMethods ==
    {"eth_getTransactionByHash", "eth_getTransactionReceipt",
     "scroll_withdrawalsByTransaction", "scroll_withdrawalByMessageHash"}

(* The pre-check column of the access matrix, read for request p: TRUE     *)
(* when the row's pre-check refuses the caller.                             *)
PreCheckRefuses(p) ==
    LET level == IF p.ext.level = "absent" THEN "None" ELSE p.ext.level
    IN CASE p.method \in FullOnlyMethods -> level # "Full"
         [] p.method \in OwnerOnlyMethods ->
               ~(level = "Full" \/ (level = "Basic" /\ p.ext.address = p.address))
         [] p.method \in SignedInMethods -> level = "None"
         [] p.method = "eth_sendRawTransaction" ->
               \/ level = "None"
               \/ /\ level = "Basic"
                  /\ p.bytes.fault = "none"
                  /\ (p.bytes.from # p.ext.address \/ p.bytes.to = NoTo)
         [] OTHER -> FALSE

(* C1: a request to a method with a pre-check, whose pre-check refuses the *)
(* caller, returns the unauthorized error and calls neither the sequencer  *)
(* nor the withdraw-proofs upstream; so does every such request without    *)
(* an access level.                                                         *)
C1_PreCheckDeniesWithoutUpstream ==
    (px.pc # "idle" /\ PreCheckRefuses(px)) =>
        /\ px.pc = "done"
        /\ px.res = [ok |-> FALSE, code |-> INVALID_REQUEST_CODE, message |-> "unauthorized",
                     data |-> "unauthorized", value |-> NoValue]
        /\ px.calls = <<>>

(* a caller signed in as 0xA asks for the code of an account: refused *)
C1_Witness ==
    /\ px.pc = "done"
    /\ px.method = "eth_getCode"
    /\ px.ext = Basic("0xA")
    /\ PreCheckRefuses(px)
    /\ px.res.message = "unauthorized"
    /\ px.calls = <<>>

(* the access level a handler reads from the request: get_access's result *)
Level(p) == IF p.ext.level = "absent" THEN "None" ELSE p.ext.level
(* the request went past its pre-check: an upstream has been called *)
Forwarded(p) == p.calls # <<>>
Denied(p) ==
    /\ p.pc = "done"
    /\ p.res = [ok |-> FALSE, code |-> INVALID_REQUEST_CODE, message |-> "unauthorized",
                data |-> "unauthorized", value |-> NoValue]

(* C13: is_authorized(user) is true for Full with every user, true for     *)
(* Basic(a) iff a = user, false for None with every user; seen through     *)
(* only_authorized(ext, address), which lets the request on iff            *)
(* is_authorized(address).                                                  *)
C13_IsAuthorizedTable ==
    (px.pc # "idle" /\ px.method \in OwnerOnlyMethods /\ px.ext # NoAccessLevel) =>
        CASE px.ext.level = "Full" -> Forwarded(px)
          [] px.ext.level = "Basic" -> (Forwarded(px) <=> px.ext.address = px.address)
          [] px.ext.level = "None" -> ~Forwarded(px)

(* Basic(0xA) asking about 0xB is not authorized *)
C13_Witness ==
    /\ px.method = "eth_getTransactionCount"
    /\ px.ext = Basic("0xA")
    /\ px.address = "0xB"
    /\ px.pc = "done"
    /\ ~Forwarded(px)

(* C14: eth_sendRawTransaction under Basic(a) is forwarded to the          *)
(* sequencer iff the bytes decode to a transaction whose recovered signer  *)
(* is a and whose `to` is present; a decoded transaction that fails either *)
(* test is answered unauthorized, with no upstream call.  Under Full the   *)
(* bytes are forwarded without being decoded (also bytes that would not    *)
(* decode); without access the call is denied before any decoding.         *)
C14_SendRawTransactionGate ==
    (px.pc # "idle" /\ px.method = "eth_sendRawTransaction") =>
        /\ Level(px) = "Basic" =>
              /\ Forwarded(px) <=>
                    /\ px.bytes.fault = "none"
                    /\ px.bytes.from = px.ext.address
                    /\ px.bytes.to # NoTo
              /\ (px.bytes.fault = "none" /\ ~Forwarded(px)) => Denied(px)
        /\ Level(px) = "Full" => (Forwarded(px) /\ px.pc # "panicked")
        /\ Level(px) = "None" => (Denied(px) /\ ~Forwarded(px))
        /\ Forwarded(px) =>
              px.calls = <<[upstream |-> "sequencer", method |-> "eth_sendRawTransaction",
                            arg |-> ""]>>

(* 0xA signs a contract creation and sends it as Basic(0xA) *)
C14_Witness ==
    /\ px.method = "eth_sendRawTransaction"
    /\ px.ext = Basic("0xA")
    /\ px.bytes = [fault |-> "none", from |-> "0xA", to |-> NoTo]
    /\ Denied(px)
    /\ ~Forwarded(px)

(* C15 as stated: under Basic access, bytes that fail RLP decoding, the    *)
(* conversion to a pooled transaction or signer recovery get an            *)
(* invalid-params error; the handler does not panic and sends nothing      *)
(* upstream.                                                                *)
C15_DecodeFailureIsInvalidParams ==
    (px.pc # "idle" /\ px.method = "eth_sendRawTransaction" /\ Level(px) = "Basic"
       /\ px.bytes.fault # "none") =>
        /\ px.pc = "done"
        /\ ~px.res.ok
        /\ px.res.code = INVALID_PARAMS_CODE
        /\ ~Forwarded(px)

(* the caller of request p is Full, or is Basic(a) with a one of the two addresses *)
FullOrBasicOf(p, x, y) ==
    \/ Level(p) = "Full"
    \/ Level(p) = "Basic" /\ (p.ext.address = x \/ p.ext.address = y)
Returned(p, v) ==
    /\ p.pc = "done"
    /\ p.res = [ok |-> TRUE, code |-> 0, message |-> "", data |-> "", value |-> v]

(* C16: eth_getTransactionByHash for a caller with access: a               *)
(* transaction the sequencer returns is handed to the caller iff the caller *)
(* is Full or is Basic(a) with a == tx.to or a the recovered signer; when   *)
(* both differ from a the caller gets unauthorized; null is handed on.      *)
C16_VisibleToPartiesOnly ==
    (px.method = "eth_getTransactionByHash" /\ px.pc = "done" /\ Level(px) # "None") =>
        /\ px.calls = <<[upstream |-> "sequencer", method |-> "eth_getTransactionByHash",
                         arg |-> px.hash]>>
        /\ px.reply.kind = "ok" =>
              LET tx == px.reply.value
              IN IF tx = Null THEN Returned(px, Null)
                 ELSE IF FullOrBasicOf(px, tx.to, tx.from) THEN Returned(px, tx)
                 ELSE Denied(px)

(* C17: eth_getTransactionReceipt for a caller with access: a              *)
(* receipt the sequencer returns is handed to the caller iff the caller is  *)
(* Full or is Basic(a) with a == receipt.to or a == receipt.from, otherwise *)
(* unauthorized; no receipt is handed on as null.                           *)
C17_ReceiptVisibleToPartiesOnly ==
    (px.method = "eth_getTransactionReceipt" /\ px.pc = "done" /\ Level(px) # "None") =>
        /\ px.calls = <<[upstream |-> "sequencer", method |-> "eth_getTransactionReceipt",
                         arg |-> px.hash]>>
        /\ px.reply.kind = "ok" =>
              LET receipt == px.reply.value
              IN IF receipt = Null THEN Returned(px, Null)
                 ELSE IF FullOrBasicOf(px, receipt.to, receipt.from) THEN Returned(px, receipt)
                 ELSE Denied(px)

(* C18: a Full-only method reaches the sequencer iff the access level is   *)
(* Full; None and every Basic(a), also with a the address argument, get    *)
(* unauthorized; under Full what the sequencer answers, a result or an     *)
(* error object, is returned as it is.                                      *)
C18_FullOnlyMethods ==
    (px.pc # "idle" /\ px.method \in FullOnlyMethods) =>
        /\ Forwarded(px) <=> Level(px) = "Full"
        /\ Level(px) # "Full" => Denied(px)
        /\ Forwarded(px) =>
              px.calls = <<[upstream |-> "sequencer", method |-> px.method, arg |-> px.address]>>
        /\ (px.pc = "done" /\ px.reply.kind = "ok") => Returned(px, px.reply.value)
        /\ (px.pc = "done" /\ px.reply.kind = "Call") => px.res = px.reply.error

(* Basic(0xA) asks for the storage of 0xA itself *)
C18_Witness ==
    /\ px.method = "eth_getStorageAt"
    /\ px.ext = Basic("0xA")
    /\ px.address = "0xA"
    /\ Denied(px)
    /\ ~Forwarded(px)

(* C19: eth_getBalance and eth_getTransactionCount call the sequencer iff  *)
(* is_authorized(address) holds for the request's access level, and are    *)
(* answered unauthorized otherwise; a caller signed in as 0xA gets the     *)
(* sequencer's answer for 0xA.                                              *)
C19_OwnerOnlyMethods ==
    (px.pc # "idle" /\ px.method \in OwnerOnlyMethods) =>
        /\ Forwarded(px) <=> is_authorized(get_access(px.ext), px.address)
        /\ ~Forwarded(px) => Denied(px)
        /\ Forwarded(px) =>
              px.calls = <<[upstream |-> "sequencer", method |-> px.method, arg |-> px.address]>>
        /\ (px.pc = "done" /\ px.reply.kind = "ok") => Returned(px, px.reply.value)
        /\ (px.ext = Basic("0xA") /\ px.address = "0xB") => Denied(px)

(* the caller signed in as 0xA gets the balance of 0xA *)
C19_Witness ==
    /\ px.method = "eth_getBalance"
    /\ px.ext = Basic("0xA")
    /\ px.address = "0xA"
    /\ px.reply.kind = "ok"
    /\ Returned(px, px.reply.value)

WithdrawalMethods == {"scroll_withdrawalsByTransaction", "scroll_withdrawalByMessageHash"}

(* C20: the two withdrawal methods for a caller with access: withdraw-     *)
(* proofs is asked first; its answer is returned as it is, and the         *)
(* sequencer is not asked, when it is empty or absent or the caller is     *)
(* Full.  Otherwise the transaction of the withdrawal is looked up on the  *)
(* sequencer: none gives internal-error "transaction not found"; the       *)
(* withdraw-proofs answer is returned iff the caller is Basic(a) with a    *)
(* the recovered signer, the recipient included in "otherwise", which      *)
(* gets unauthorized.                                                       *)
C20_WithdrawalVisibility ==
    (px.method \in WithdrawalMethods /\ px.pc = "done" /\ Level(px) # "None") =>
        /\ px.calls[1] = [upstream |-> "withdraw_proofs", method |-> px.method, arg |-> px.hash]
        /\ (Len(px.calls) = 1 /\ px.reply.kind = "ok") =>
              /\ Returned(px, px.reply.value)
              /\ Level(px) = "Full" \/ px.reply.value = Null
                   \/ (px.reply.value.kind = "withdrawals" /\ px.reply.value.id = "")
        /\ Len(px.calls) # 1 =>
              /\ Level(px) = "Basic"
              /\ px.ws.kind \in {"withdrawals", "withdrawal"} /\ px.ws.id \in Hashes
              /\ px.calls = <<px.calls[1],
                              [upstream |-> "sequencer", method |-> "eth_getTransactionByHash",
                               arg |-> px.ws.id]>>
              /\ px.method = "scroll_withdrawalsByTransaction" => px.ws.id = px.hash
              /\ px.reply.kind = "ok" =>
                    LET tx == px.reply.value
                    IN IF tx = Null
                       THEN px.res = [ok |-> FALSE, code |-> INTERNAL_ERROR_CODE,
                                      message |-> "internal_error",
                                      data |-> "transaction not found", value |-> NoValue]
                       ELSE IF px.ext.address = tx.from THEN Returned(px, px.ws)
                       ELSE Denied(px)

(* Basic(0xA) is the recipient, not the sender, of the withdrawal's transaction *)
C20_Witness ==
    /\ px.method = "scroll_withdrawalByMessageHash"
    /\ px.ext = Basic("0xA")
    /\ Len(px.calls) = 2
    /\ px.reply.kind = "ok"
    /\ px.reply.value.kind = "tx"
    /\ px.reply.value.to = "0xA" /\ px.reply.value.from = "0xB"
    /\ Denied(px)

PublicMethods == {"eth_blockNumber", "eth_chainId", "eth_feeHistory"}
FreeMethods == {"eth_gasPrice", "eth_maxPriorityFeePerGas"}

(* C24: eth_blockNumber, eth_chainId and eth_feeHistory have no pre-check: *)
(* for every access level, None and a request without a usable credential  *)
(* included, the request goes to the sequencer and the caller gets what the *)
(* sequencer answered.                                                      *)
C24_PublicMethodsForwarded ==
    (px.pc # "idle" /\ px.method \in PublicMethods) =>
        /\ px.calls = <<[upstream |-> "sequencer", method |-> px.method, arg |-> ""]>>
        /\ px.pc \in {"sequencer", "done"}
        /\ px.pc = "done" =>
              /\ px.reply # NoReply
              /\ px.reply.kind = "ok" => px.res = RpcResultOk(px.reply.value)
              /\ px.res # unauthorized

(* a request without credentials gets the sequencer's block number *)
C24_Witness ==
    /\ px.pc = "done"
    /\ px.method = "eth_blockNumber"
    /\ get_access(px.ext) = AccessNone
    /\ px.reply.kind = "ok"
    /\ px.res = RpcResultOk(px.reply.value)

(* C25: eth_gasPrice and eth_maxPriorityFeePerGas answer 0 for every access *)
(* level and call no upstream.                                              *)
C25_GasIsFree ==
    (px.pc # "idle" /\ px.method \in FreeMethods) =>
        /\ px.pc = "done"
        /\ px.calls = <<>>
        /\ px.reply = NoReply
        /\ px.res.ok /\ px.res.value.kind = "zero"

(* eth_maxPriorityFeePerGas asked without credentials *)
C25_Witness ==
    /\ px.pc = "done"
    /\ px.method = "eth_maxPriorityFeePerGas"
    /\ px.ext = AccessNone
    /\ px.res.ok /\ px.res.value.kind = "zero"
    /\ px.calls = <<>>

(* C26: when an upstream call made after a passed pre-check fails, an error *)
(* object the upstream answered with reaches the client unchanged, and a    *)
(* transport or parse failure reaches it as an internal error, code -32603; *)
(* either way no post-check runs and no result payload is returned.         *)
C26_UpstreamFailure ==
    (px.pc # "idle" /\ px.reply.kind \in {"Call", "Transport"}) =>
        /\ px.pc = "done"
        /\ px.calls # <<>>
        /\ px.reply.kind = "Call" => px.res = px.reply.error
        /\ px.reply.kind = "Transport" =>
              (~px.res.ok /\ px.res.code = INTERNAL_ERROR_CODE)
        /\ ~px.res.ok /\ px.res.value = NoValue
        /\ px.res # unauthorized

(* the lookup of the withdrawal's transaction fails in transport, for a    *)
(* caller whose withdrawals were found                                      *)
C26_Witness ==
    /\ px.pc = "done"
    /\ px.method = "scroll_withdrawalsByTransaction"
    /\ px.ext.level = "Basic"
    /\ Len(px.calls) = 2
    /\ px.reply.kind = "Transport"
    /\ px.res.code = INTERNAL_ERROR_CODE

(* C30: in the post-checks of eth_getTransactionByHash and                  *)
(* eth_getTransactionReceipt a transaction without `to` (a contract         *)
(* creation) is compared against the zero address: a Basic(a) caller who is *)
(* not its sender is shown it iff a is the zero address, so Basic(0x0) sees *)
(* every contract creation.                                                 *)
C30_CreationVisibleToZeroAddress ==
    (/\ px.method \in {"eth_getTransactionByHash", "eth_getTransactionReceipt"}
     /\ px.pc = "done" /\ Level(px) = "Basic"
     /\ px.reply.kind = "ok" /\ px.reply.value # Null
     /\ px.reply.value.to = NoTo /\ px.reply.value.from # px.ext.address) =>
        /\ Returned(px, px.reply.value) <=> px.ext.address = ZERO_ADDRESS
        /\ px.ext.address # ZERO_ADDRESS => Denied(px)

(* Basic(0x0) is shown a contract creation sent by 0xA *)
C30_Witness ==
    /\ px.method = "eth_getTransactionByHash"
    /\ px.ext = Basic(ZERO_ADDRESS)
    /\ px.reply.kind = "ok"
    /\ px.reply.value.kind = "tx"
    /\ px.reply.value.from = "0xA" /\ px.reply.value.to = NoTo
    /\ Returned(px, px.reply.value)

(* the methods whose handler starts with a pre-check *)
PreCheckedMethods ==
    FullOnlyMethods \cup OwnerOnlyMethods \cup SignedInMethods \cup {"eth_sendRawTransaction"}

(* C34: a request that reaches a handler with no AccessLevel in its         *)
(* extensions is treated as None: every method with a pre-check answers    *)
(* unauthorized and no upstream is called.                                  *)
C34_FailClosed ==
    (px.pc # "idle" /\ px.ext = NoAccessLevel /\ px.method \in PreCheckedMethods) =>
        /\ Denied(px)
        /\ px.calls = <<>>
        /\ px.reply = NoReply

(* a raw transaction sent without the middleware having attached a level *)
C34_Witness ==
    /\ px.pc = "done"
    /\ px.ext = NoAccessLevel
    /\ px.method = "eth_sendRawTransaction"
    /\ px.bytes.fault = "none"
    /\ Denied(px)
    /\ px.calls = <<>>

(* C35: the upstream calls of a request, in order.  A call is made only    *)
(* once the pre-check has let the caller through; every method makes at    *)
(* most one, but the two withdrawal methods: these ask withdraw-proofs,    *)
(* and then the sequencer for the transaction exactly when the caller is   *)
(* Basic and withdraw-proofs answered with something non-empty: not when   *)
(* it failed, answered empty or absent, or the caller is Full.  A Basic    *)
(* caller is handed withdrawal data only after the lookup has answered     *)
(* with a transaction whose signer the caller is.                          *)
C35_CallOrdering ==
    LET empty(v) == v = Null \/ (v.kind = "withdrawals" /\ v.id = "")
    IN
    /\ px.calls # <<>> => ~PreCheckRefuses(px)
    /\ px.method \notin WithdrawalMethods =>
          /\ Len(px.calls) <= 1
          /\ px.calls # <<>> => px.calls[1].upstream = "sequencer"
    /\ (px.method \in WithdrawalMethods /\ px.calls # <<>>) =>
          /\ px.calls[1] = [upstream |-> "withdraw_proofs", method |-> px.method, arg |-> px.hash]
          /\ Len(px.calls) <= 2
          /\ px.pc = "withdraw_proofs" => Len(px.calls) = 1 /\ px.res = NoRpcResult
          /\ (Len(px.calls) = 1 /\ px.pc = "done") =>
                \/ px.reply.kind # "ok"
                \/ empty(px.reply.value)
                \/ Level(px) = "Full"
          /\ Len(px.calls) = 2 =>
                /\ Level(px) = "Basic"
                /\ px.ws # NoValue /\ ~empty(px.ws)
                /\ px.calls[2].upstream = "sequencer"
                /\ px.calls[2].method = "eth_getTransactionByHash"
                /\ px.pc \in {"sequencer", "done"}
                /\ px.pc = "sequencer" => px.res = NoRpcResult
          /\ (Level(px) = "Basic" /\ px.res.ok /\ ~empty(px.res.value)) =>
                /\ px.pc = "done"
                /\ Len(px.calls) = 2
                /\ px.res.value = px.ws
                /\ px.reply.kind = "ok"
                /\ px.reply.value.kind = "tx"
                /\ px.reply.value.from = px.ext.address

(* the sender of a withdrawal's transaction gets the withdrawals after both calls *)
C35_Witness ==
    /\ px.method = "scroll_withdrawalsByTransaction"
    /\ px.ext = Basic("0xA")
    /\ px.pc = "done"
    /\ Len(px.calls) = 2
    /\ px.calls[1].upstream = "withdraw_proofs"
    /\ px.calls[2].upstream = "sequencer"
    /\ Returned(px, px.ws)


====
